---- MODULE Spec2Model ----
(***************************************************************************)
(* Conference survey backend: the Express route handlers over the Prisma   *)
(* tables, modelled at the granularity of their awaited database calls.    *)
(* A request occupies a slot of req from its arrival to its answer; every  *)
(* action is the code of one handler between two awaits.                   *)
(***************************************************************************)
EXTENDS Integers, FiniteSets, Sequences, TLC

\* ------------------------------------------------------------------ bounds
MaxSurveys == 3         \* survey rows ever created
MaxAttendees == 2       \* attendee rows ever created
MaxTime == 45           \* the clock stops here
TickMins == 15          \* the clock advances in steps of this many minutes
MaxConferences == 3     \* conference rows ever created
MaxResponses == 4       \* response rows ever created
MaxAnswers == 2         \* entries in the responses array of one submission
MaxJobs == 3            \* jobs ever added to the queue
MaxQuestions == 3       \* the highest number of a question id ever created

\* ------------------------------------------------------------ configuration
LockoutAttempts == 5        \* config.lockout.attempts
LockoutDurationMins == 30   \* config.lockout.durationMins
RetryAttempts == 3          \* config.email.retryAttempts

\* ------------------------------------------------------------------ values
Admins == {"admin1", "admin2"}
ConfIds == {"c1", "c2"}
SurveyIds == 1..MaxSurveys
Titles == {"", "Day 1"}
Slots == {1, 2}          \* two requests can be in the handlers at the same time
SeqSlots == {1}          \* one request at a time
Sockets == {"s1", "s2"}  \* the connected sockets
NoSockets ==
  [rooms |-> [s \in Sockets |-> {}], joining |-> {}, emitted |-> {}, inbox |-> {},
   sequence |-> <<>>]
Emails == {"ann@x.io", "Ann@X.io", "bob@x.io"}
Passwords == {"pw1", "pw2"}
UrlCodes == {"X", "Y", "Z"}
NoDate == -1             \* lockedUntil: null
NoHash == <<>>           \* passwordHash: null
\* A slot with no request in it remembers the answer it sent last: the HTTP
\* status, the attendee ids for which the body carries a token, and the place
\* in the handler that sent it.
Answer(op, status, token, at) ==
  [op |-> op, status |-> status, token |-> token, at |-> at, pc |-> "idle"]
NoAnswer == Answer("none", 0, {}, "start")

VARIABLES
  db,      \* the Prisma tables: conferences, surveys, questions, attendees, responses
  nextId,  \* ids handed out so far, per table (ids are never reused)
  now,     \* the clock, in minutes
  req,     \* slot -> the request being handled there (position, locals), or the
           \* answer sent last
  hist,    \* history: overlap (requests overlapped since the last quiet state),
           \* accepted (the <<attendee, survey>> submissions answered 201),
           \* sent (the password emails sent)
  queue,   \* the Bull queue 'password-delivery': the jobs waiting or being retried
  io       \* the Socket.io server: the rooms of each socket, the joins that wait
           \* for their look-up, and what the latest emit sent and delivered

vars == <<db, nextId, now, req, hist, queue, io>>

\* ----------------------------------------------------------- request slots
Idle(r) == req[r].pc = "idle"
AllIdle == \A r \in Slots : Idle(r)

\* A request arrives in slot r; overlap records that another one is in flight.
Receive(r, request) ==
  /\ Idle(r)
  /\ req' = [req EXCEPT ![r] = request]
  /\ hist' = [hist EXCEPT !.overlap = IF AllIdle THEN FALSE ELSE TRUE]
  /\ UNCHANGED <<db, nextId, now, queue, io>>

\* A request arrives in slot r and is answered before the handler's first await.
Reject(r, op, status) ==
  /\ Idle(r)
  /\ req' = [req EXCEPT ![r] = Answer(op, status, {}, "arrival")]
  /\ UNCHANGED <<db, nextId, now, hist, queue, io>>

\* res.status(status).json(...): the handler of slot r ends.
Respond(r, status) ==
  req' = [req EXCEPT ![r] = Answer(req[r].op, status, {}, req[r].pc)]

\* res.json({token: generateJWT({id, ...}), ...})
RespondToken(r, status, id) ==
  req' = [req EXCEPT ![r] = Answer(req[r].op, status, {id}, req[r].pc)]

\* The handler of slot r reaches its next await.
Goto(r, pc) == req' = [req EXCEPT ![r].pc = pc]

\* The step of slot r that sends the answer of an op request with this status.
Answers(r, op, status) ==
  /\ ~Idle(r)
  /\ req[r].op = op
  /\ req'[r].pc = "idle"
  /\ req'[r].status = status

\* Slot r is free and the last answer it sent was this one.
Answered(r, op, status) ==
  /\ Idle(r)
  /\ req[r].op = op
  /\ req[r].status = status

\* ---------------------------------------------------------------- sockets
\* `conference:${conferenceId}`
Room(conferenceId) == "conference:" \o conferenceId

\* The sockets that are in a room.
SocketsIn(room) == {s \in Sockets : room \in io.rooms[s]}

\* An emitted event: its name and, for new_response, the questionId it
\* carries.
Event(name, questionId) == [questionId |-> questionId, event |-> name]

\* io.to(room).emit(event, ...) for each event of this sequence, in its order:
\* every socket that is in the room now receives them. io.sequence, io.emitted
\* and io.inbox hold what the latest emitting step sent and delivered.
EmitToAll(room, events) ==
  io' = [io EXCEPT
           !.sequence = events,
           !.emitted = {[room |-> room, event |-> events[i].event] :
                          i \in 1..Len(events)},
           !.inbox = {[room |-> room, event |-> events[i].event, socket |-> s] :
                        s \in Sockets, i \in 1..Len(events)}]
Emit(room, events) ==
  io' = [io EXCEPT
           !.sequence = events,
           !.emitted = {[room |-> room, event |-> events[i].event] :
                          i \in 1..Len(events)},
           !.inbox = {[room |-> room, event |-> events[i].event, socket |-> s] :
                        s \in SocketsIn(room), i \in 1..Len(events)}]

\* socket.emit(event, ...): this socket alone receives the event.
EmitToSocket(s, event) ==
  [io EXCEPT !.sequence = <<>>,
             !.emitted = {},
             !.inbox = {[room |-> "", event |-> event, socket |-> s]}]

\* socket.on('join_conference'): "Validate that conference exists"; a socket
\* whose conference was found waits in io.joining for the await to return
\* (a socket sends its next join_conference after that).
JoinConference_Find(s) ==
  \E conferenceId \in ConfIds \cup {"c9"} :
    /\ \A c \in ConfIds : <<s, c>> \notin io.joining
    /\ IF \E c \in db.conferences : c.id = conferenceId
         THEN io' = [io EXCEPT !.joining = @ \cup {<<s, conferenceId>>}]
         ELSE io' = EmitToSocket(s, "error")
    /\ UNCHANGED <<db, nextId, now, req, hist, queue>>

\* socket.on('join_conference'): socket.join and the 'joined_conference' event
JoinConference_Join(s) ==
  \E conferenceId \in ConfIds :
    /\ <<s, conferenceId>> \in io.joining
    /\ io' = [EmitToSocket(s, "joined_conference") EXCEPT
                !.joining = @ \ {<<s, conferenceId>>},
                !.rooms[s] = @ \cup {Room(conferenceId)}]
    /\ UNCHANGED <<db, nextId, now, req, hist, queue>>

\* socket.on('leave_conference'): socket.leave
LeaveConference(s) ==
  \E conferenceId \in ConfIds :
    /\ Room(conferenceId) \in io.rooms[s]
    /\ io' = [io EXCEPT !.rooms[s] = @ \ {Room(conferenceId)}]
    /\ UNCHANGED <<db, nextId, now, req, hist, queue>>

\* ---------------------------------------------------------------- surveys
SurveysOf(svs, conferenceId) == {s \in svs : s.conferenceId = conferenceId}
ActiveSurveys(svs, conferenceId) ==
  {s \in SurveysOf(svs, conferenceId) : s.status = "active"}
SurveyById(svs, id) == CHOOSE s \in svs : s.id = id
HasSurvey(svs, id) == \E s \in svs : s.id = id
ConferenceById(id) == CHOOSE c \in db.conferences : c.id = id

\* prisma.survey.updateMany({where: {conferenceId, id: {not}, status: 'active'},
\*                           data: {status: 'inactive'}})
DeactivateOthersNoop(svs, survey) == svs
DeactivateOthersAnywhere(svs, survey) ==
  { IF s.id # survey.id /\ s.status = "active"
      THEN [s EXCEPT !.status = "inactive"] ELSE s : s \in svs }
DeactivateOthers(svs, survey) ==
  { IF s.conferenceId = survey.conferenceId /\ s.id # survey.id /\ s.status = "active"
      THEN [s EXCEPT !.status = "inactive"] ELSE s : s \in svs }

\* prisma.survey.update({where: {id}, data: {status}})
SetSurveyStatus(svs, id, status) ==
  { IF s.id = id THEN [s EXCEPT !.status = status] ELSE s : s \in svs }

\* prisma.survey.update({where: {id}, data: {title, ...}})
SetSurveyTitle(svs, id, title) ==
  { IF s.id = id THEN [s EXCEPT !.title = title] ELSE s : s \in svs }

\* prisma.survey.delete: the survey goes, and with it its questions and their
\* responses (the schema's cascade).
CascadeDeleteSurvey(d, id) ==
  LET qs == {q \in d.questions : q.surveyId = id}
      qids == {q.id : q \in qs}
  IN [d EXCEPT !.surveys = {s \in @ : s.id # id},
               !.questions = @ \ qs,
               !.responses = {x \in @ : x.questionId \notin qids}]

\* findUnique({where: {id}, include: {conference}}) and the two early returns
\* shared by PUT /surveys/:id, /activate, /deactivate and DELETE /surveys/:id.
FindOwnedSurvey(r, nextPc) ==
  IF ~HasSurvey(db.surveys, req[r].id)
    THEN Respond(r, 404)
  ELSE IF ConferenceById(SurveyById(db.surveys, req[r].id).conferenceId).adminId
            # req[r].adminId
    THEN Respond(r, 403)
  ELSE /\ req' = [req EXCEPT ![r].pc = nextPc,
                             ![r].survey = [id |-> req[r].id, conferenceId |->
                               SurveyById(db.surveys, req[r].id).conferenceId]]

\* An authenticated admin sends a survey request.
ReceiveSurveyRequest(r) ==
  \/ \E a \in Admins, c \in ConfIds, t \in Titles :
       Receive(r, [op |-> "createSurvey", pc |-> "validate", conferenceId |-> c,
                   title |-> t, adminId |-> a])
  \/ \E a \in Admins, id \in SurveyIds, t \in Titles :
       Receive(r, [op |-> "updateSurvey", pc |-> "validate", id |-> id,
                   survey |-> <<>>, title |-> t, adminId |-> a, pre |-> db.surveys])
  \/ \E a \in Admins, id \in SurveyIds,
        op \in {"activateSurvey", "deactivateSurvey", "deleteSurvey"} :
       Receive(r, [op |-> op, pc |-> "find", id |-> id,
                   survey |-> <<>>, adminId |-> a, pre |-> db.surveys])

\* Admins send activations and deactivations while other requests are in flight.
ReceiveActivation(r) ==
  \E a \in Admins, id \in SurveyIds, op \in {"activateSurvey", "deactivateSurvey"} :
    Receive(r, [op |-> op, pc |-> "find", id |-> id,
                survey |-> <<>>, adminId |-> a, pre |-> {}])

\* validateSurvey, handleValidationErrors: an empty title is answered 400.
ValidateSurvey(r) ==
  /\ req[r].pc = "validate"
  /\ req[r].op \in {"createSurvey", "updateSurvey"}
  /\ IF req[r].title = ""
       THEN Respond(r, 400)
       ELSE Goto(r, "find")
  /\ UNCHANGED <<db, nextId, now, hist, queue, io>>

\* POST /surveys: conference.findFirst({where: {id, adminId}})
CreateSurvey_FindConference(r) ==
  /\ req[r].pc = "find"
  /\ req[r].op = "createSurvey"
  /\ IF \E c \in db.conferences :
            c.id = req[r].conferenceId /\ c.adminId = req[r].adminId
       THEN Goto(r, "create")
       ELSE Respond(r, 404)
  /\ UNCHANGED <<db, nextId, now, hist, queue, io>>

\* POST /surveys: survey.create({data: {..., status: 'draft'}}), 201
CreateSurvey_Create(r) ==
  /\ req[r].pc = "create"
  /\ req[r].op = "createSurvey"
  /\ nextId.survey <= MaxSurveys
  /\ IF \E c \in db.conferences : c.id = req[r].conferenceId
       THEN /\ db' = [db EXCEPT !.surveys = @ \cup
                       {[status |-> "draft", id |-> nextId.survey,
                         conferenceId |-> req[r].conferenceId, title |-> req[r].title]}]
            /\ nextId' = [nextId EXCEPT !.survey = @ + 1]
            /\ Respond(r, 201)
       ELSE /\ Respond(r, 500)
            /\ UNCHANGED <<db, nextId>>
  /\ UNCHANGED <<now, hist, queue, io>>

\* PUT /surveys/:id: findUnique, 404, 403
UpdateSurvey_Find(r) ==
  /\ req[r].pc = "find"
  /\ req[r].op = "updateSurvey"
  /\ FindOwnedSurvey(r, "update")
  /\ UNCHANGED <<db, nextId, now, hist, queue, io>>

\* PUT /surveys/:id: survey.update({data: {title, description, sortOrder}})
UpdateSurvey_Update(r) ==
  /\ req[r].pc = "update"
  /\ req[r].op = "updateSurvey"
  /\ IF HasSurvey(db.surveys, req[r].id)
       THEN /\ db' = [db EXCEPT !.surveys = SetSurveyTitle(@, req[r].id, req[r].title)]
            /\ Respond(r, 200)
       ELSE /\ Respond(r, 500)
            /\ UNCHANGED db
  /\ UNCHANGED <<nextId, now, hist, queue, io>>

\* PUT /surveys/:id/activate: findUnique, 404, 403
ActivateSurvey_Find(r) ==
  /\ req[r].pc = "find"
  /\ req[r].op = "activateSurvey"
  /\ FindOwnedSurvey(r, "deactivateOthers")
  /\ UNCHANGED <<db, nextId, now, hist, queue, io>>

\* PUT /surveys/:id/activate: "Deactivate all other surveys in this conference"
ActivateSurvey_DeactivateOthers(r) ==
  /\ req[r].pc = "deactivateOthers"
  /\ req[r].op = "activateSurvey"
  /\ db' = [db EXCEPT !.surveys = DeactivateOthers(@, req[r].survey)]
  /\ Goto(r, "activate")
  /\ UNCHANGED <<nextId, now, hist, queue, io>>

\* PUT /surveys/:id/activate: "Activate this survey", then the answer
ActivateSurvey_Activate(r) ==
  /\ req[r].pc = "activate"
  /\ req[r].op = "activateSurvey"
  /\ IF HasSurvey(db.surveys, req[r].id)
       THEN /\ db' = [db EXCEPT !.surveys = SetSurveyStatus(@, req[r].id, "active")]
            /\ Emit(Room(req[r].survey.conferenceId),
                    <<Event("survey_activated", "")>>)
            /\ Respond(r, 200)
       ELSE /\ Respond(r, 500)
            /\ UNCHANGED <<db, io>>
  /\ UNCHANGED <<nextId, now, hist, queue>>

\* PUT /surveys/:id/deactivate: findUnique, 404, 403
DeactivateSurvey_Find(r) ==
  /\ req[r].pc = "find"
  /\ req[r].op = "deactivateSurvey"
  /\ FindOwnedSurvey(r, "deactivate")
  /\ UNCHANGED <<db, nextId, now, hist, queue, io>>

\* PUT /surveys/:id/deactivate: survey.update({data: {status: 'inactive'}})
DeactivateSurvey_Update(r) ==
  /\ req[r].pc = "deactivate"
  /\ req[r].op = "deactivateSurvey"
  /\ IF HasSurvey(db.surveys, req[r].id)
       THEN /\ db' = [db EXCEPT !.surveys = SetSurveyStatus(@, req[r].id, "inactive")]
            /\ Emit(Room(req[r].survey.conferenceId),
                    <<Event("survey_deactivated", "")>>)
            /\ Respond(r, 200)
       ELSE /\ Respond(r, 500)
            /\ UNCHANGED <<db, io>>
  /\ UNCHANGED <<nextId, now, hist, queue>>

\* DELETE /surveys/:id: findUnique, 404, 403
DeleteSurvey_Find(r) ==
  /\ req[r].pc = "find"
  /\ req[r].op = "deleteSurvey"
  /\ FindOwnedSurvey(r, "delete")
  /\ UNCHANGED <<db, nextId, now, hist, queue, io>>

\* DELETE /surveys/:id: survey.delete({where: {id}})
DeleteSurvey_Delete(r) ==
  /\ req[r].pc = "delete"
  /\ req[r].op = "deleteSurvey"
  /\ IF HasSurvey(db.surveys, req[r].id)
       THEN /\ db' = CascadeDeleteSurvey(db, req[r].id)
            /\ Respond(r, 200)
       ELSE /\ Respond(r, 500)
            /\ UNCHANGED db
  /\ UNCHANGED <<nextId, now, hist, queue, io>>

SurveyStep(r) ==
  \/ ReceiveSurveyRequest(r)
  \/ ValidateSurvey(r)
  \/ CreateSurvey_FindConference(r)
  \/ CreateSurvey_Create(r)
  \/ UpdateSurvey_Find(r)
  \/ UpdateSurvey_Update(r)
  \/ ActivateSurvey_Find(r)
  \/ ActivateSurvey_DeactivateOthers(r)
  \/ ActivateSurvey_Activate(r)
  \/ DeactivateSurvey_Find(r)
  \/ DeactivateSurvey_Update(r)
  \/ DeleteSurvey_Find(r)
  \/ DeleteSurvey_Delete(r)

\* ------------------------------------------------------------- attendees
\* email.toLowerCase()
ToLowerCaseIdentity(email) == email
ToLowerCase(email) == IF email = "Ann@X.io" THEN "ann@x.io" ELSE email

\* hashPassword, comparePassword (bcrypt): a hash matches the password it was
\* made from and no other.
HashPassword(password) == <<"bcrypt", password>>
ComparePassword(password, hash) == hash = HashPassword(password)

\* conference.findUnique({where: {urlCode}})
ConferencesByCode(code) == {c \in db.conferences : c.urlCode = code}

\* attendee.findUnique({where: {conferenceId_email: {conferenceId, email}}})
AttendeesByEmail(atts, conferenceId, email) ==
  {a \in atts : a.conferenceId = conferenceId /\ a.email = email}
AttendeeById(atts, id) == CHOOSE a \in atts : a.id = id
HasAttendee(atts, id) == \E a \in atts : a.id = id

\* The compound unique key conferenceId_email: an insert of a second row with
\* the same pair is rejected by the database.
NoUniqueConferenceEmail(atts, conferenceId, email) == TRUE
UniqueConferenceEmail(atts, conferenceId, email) ==
  AttendeesByEmail(atts, conferenceId, email) = {}

\* attendee.status === 'locked' && attendee.lockedUntil && new Date() < lockedUntil
LockedOutNever(a, t) == FALSE
LockedOut(a, t) ==
  a.status = "locked" /\ a.lockedUntil # NoDate /\ t < a.lockedUntil

\* attempts >= config.lockout.attempts
ReachesLockoutLate(attempts) == attempts > LockoutAttempts
ReachesLockout(attempts) == attempts >= LockoutAttempts

\* attendee.update({where: {id}, data})
UpdateAttendeeKeepStatus(atts, id, status, failedAttempts, lockedUntil) ==
  { IF a.id = id
      THEN [a EXCEPT !.failedAttempts = failedAttempts, !.lockedUntil = lockedUntil]
      ELSE a : a \in atts }
UpdateAttendee(atts, id, status, failedAttempts, lockedUntil) ==
  { IF a.id = id
      THEN [a EXCEPT !.status = status, !.failedAttempts = failedAttempts,
                     !.lockedUntil = lockedUntil]
      ELSE a : a \in atts }

\* An attendee sends a first-login (registration) request with one of these
\* emails; POST /auth/attendee/first-login answers 400 at once when a required
\* field is missing.
ReceiveFirstLogin(r, emails) ==
  \E e \in emails \cup {""}, c \in UrlCodes \cup {""},
     f \in {"", "Ann"}, l \in {"", "Lee"} :
    IF e = "" \/ c = ""
      THEN Reject(r, "firstLogin", 400)
    ELSE IF f = "" \/ l = ""
      THEN Reject(r, "firstLogin", 400)
    ELSE Receive(r, [op |-> "firstLogin", pc |-> "findConference", conferenceId |-> "",
                     email |-> e, conferenceCode |-> c])

\* POST /auth/attendee/first-login: "Find the conference"
FirstLogin_FindConference(r) ==
  /\ req[r].pc = "findConference"
  /\ req[r].op = "firstLogin"
  /\ LET found == ConferencesByCode(req[r].conferenceCode)
     IN IF found = {}
          THEN Respond(r, 404)
        ELSE IF (CHOOSE c \in found : TRUE).status # "active"
          THEN Respond(r, 400)
        ELSE req' = [req EXCEPT ![r].pc = "findAttendee",
                                ![r].conferenceId = (CHOOSE c \in found : TRUE).id]
  /\ UNCHANGED <<db, nextId, now, hist, queue, io>>

\* POST /auth/attendee/first-login: "Check if attendee already exists"
FirstLogin_FindAttendee(r) ==
  /\ req[r].pc = "findAttendee"
  /\ req[r].op = "firstLogin"
  /\ LET existing == AttendeesByEmail(db.attendees, req[r].conferenceId,
                                      ToLowerCase(req[r].email))
     IN IF existing # {}
          THEN IF (CHOOSE a \in existing : TRUE).status = "active"
                 THEN Respond(r, 409)
                 ELSE RespondToken(r, 200, (CHOOSE a \in existing : TRUE).id)
          ELSE Goto(r, "create")
  /\ UNCHANGED <<db, nextId, now, hist, queue, io>>

\* POST /auth/attendee/first-login: generatePassword, hashPassword,
\* attendee.create({data: {..., status: 'first_login'}}), 201 with a token; a
\* rejected insert is answered 500 by the catch block.
FirstLogin_Create(r) ==
  /\ req[r].pc = "create"
  /\ req[r].op = "firstLogin"
  /\ \E password \in Passwords :
       IF /\ UniqueConferenceEmail(db.attendees, req[r].conferenceId,
                                   ToLowerCase(req[r].email))
          /\ \E c \in db.conferences : c.id = req[r].conferenceId
         THEN /\ nextId.attendee <= MaxAttendees
              /\ db' = [db EXCEPT !.attendees = @ \cup
                         {[status |-> "first_login",
                           id |-> nextId.attendee,
                           conferenceId |-> req[r].conferenceId,
                           email |-> ToLowerCase(req[r].email),
                           lockedUntil |-> NoDate,
                           failedAttempts |-> 0,
                           passwordHash |-> HashPassword(password)]}]
              /\ nextId' = [nextId EXCEPT !.attendee = @ + 1]
              /\ RespondToken(r, 201, nextId.attendee)
         ELSE /\ Respond(r, 500)
              /\ UNCHANGED <<db, nextId>>
  /\ UNCHANGED <<now, hist, queue, io>>

\* An attendee sends a login request; POST /auth/attendee/login answers 400 at
\* once when a required field is missing.
ReceiveLogin(r) ==
  \E e \in Emails \cup {""}, p \in Passwords \cup {""}, c \in {"X", "Z", ""} :
    IF e = "" \/ p = "" \/ c = ""
      THEN Reject(r, "login", 400)
      ELSE Receive(r, [op |-> "login", pc |-> "findConference", conferenceId |-> "",
                       email |-> e, password |-> p, conferenceCode |-> c,
                       attendee |-> <<>>])

\* POST /auth/attendee/login: "Find the conference"
Login_FindConference(r) ==
  /\ req[r].pc = "findConference"
  /\ req[r].op = "login"
  /\ LET found == ConferencesByCode(req[r].conferenceCode)
     IN IF found = {}
          THEN Respond(r, 404)
          ELSE req' = [req EXCEPT ![r].pc = "findAttendee",
                                  ![r].conferenceId = (CHOOSE c \in found : TRUE).id]
  /\ UNCHANGED <<db, nextId, now, hist, queue, io>>

\* POST /auth/attendee/login: "Find the attendee", "Check if locked", "Check
\* if password is set"; the handler keeps the row it read.
Login_FindAttendee(r) ==
  /\ req[r].pc = "findAttendee"
  /\ req[r].op = "login"
  /\ LET found == AttendeesByEmail(db.attendees, req[r].conferenceId,
                                   ToLowerCase(req[r].email))
         attendee == CHOOSE a \in found : TRUE
     IN IF found = {}
          THEN Respond(r, 401)
        ELSE IF LockedOut(attendee, now)
          THEN Respond(r, 423)
        ELSE IF attendee.passwordHash = NoHash
          THEN Respond(r, 403)
        ELSE req' = [req EXCEPT ![r].pc = "verify",
                                ![r].attendee =
                                  [id |-> attendee.id,
                                   failedAttempts |-> attendee.failedAttempts,
                                   passwordHash |-> attendee.passwordHash]]
  /\ UNCHANGED <<db, nextId, now, hist, queue, io>>

\* POST /auth/attendee/login: "Verify password" and the update that follows:
\* a failed attempt is counted and locks at config.lockout.attempts, a
\* successful login resets the counter. An update of a row that is gone is
\* answered 500 by the catch block.
Login_Verify(r) ==
  /\ req[r].pc = "verify"
  /\ req[r].op = "login"
  /\ LET attendee == req[r].attendee
         valid == ComparePassword(req[r].password, attendee.passwordHash)
         attempts == attendee.failedAttempts + 1
     IN IF ~HasAttendee(db.attendees, attendee.id)
          THEN Respond(r, 500) /\ UNCHANGED db
        ELSE IF ~valid /\ ReachesLockout(attempts)
          THEN /\ db' = [db EXCEPT !.attendees =
                          UpdateAttendee(@, attendee.id, "locked", attempts,
                                         now + LockoutDurationMins)]
               /\ Respond(r, 423)
        ELSE IF ~valid
          THEN /\ db' = [db EXCEPT !.attendees =
                          UpdateAttendee(@, attendee.id,
                                         AttendeeById(@, attendee.id).status, attempts,
                                         AttendeeById(@, attendee.id).lockedUntil)]
               /\ Respond(r, 401)
        ELSE /\ db' = [db EXCEPT !.attendees =
                        UpdateAttendee(@, attendee.id, "active", 0, NoDate)]
             /\ RespondToken(r, 200, attendee.id)
  /\ UNCHANGED <<nextId, now, hist, queue, io>>

\* An authenticated admin sends an unlock request.
ReceiveUnlock(r) ==
  \E a \in Admins, id \in 1..MaxAttendees :
    Receive(r, [op |-> "unlock", pc |-> "find", id |-> id, adminId |-> a])

\* PUT /attendees/:id/unlock: findUnique, 404, 403
Unlock_Find(r) ==
  /\ req[r].pc = "find"
  /\ req[r].op = "unlock"
  /\ IF ~HasAttendee(db.attendees, req[r].id)
       THEN Respond(r, 404)
     ELSE IF ConferenceById(AttendeeById(db.attendees, req[r].id).conferenceId).adminId
               # req[r].adminId
       THEN Respond(r, 403)
     ELSE Goto(r, "update")
  /\ UNCHANGED <<db, nextId, now, hist, queue, io>>

\* PUT /attendees/:id/unlock: attendee.update({data: {status: 'active',
\* failedAttempts: 0, lockedUntil: null}})
Unlock_Update(r) ==
  /\ req[r].pc = "update"
  /\ req[r].op = "unlock"
  /\ IF HasAttendee(db.attendees, req[r].id)
       THEN /\ db' = [db EXCEPT !.attendees =
                       UpdateAttendee(@, req[r].id, "active", 0, NoDate)]
            /\ Respond(r, 200)
       ELSE /\ Respond(r, 500)
            /\ UNCHANGED db
  /\ UNCHANGED <<nextId, now, hist, queue, io>>

\* ------------------------------------------------------------ conferences
ConferenceNames == {"Expo", "Expo!"}
Suffixes == {"AB12", "ZZ99"}

\* The id of the n-th conference row.
ConferenceIdOf(n) == "c" \o ToString(n)

\* /^[a-zA-Z0-9][a-zA-Z0-9-]*[a-zA-Z0-9]$/ and 3-50 characters; "X" and "Y"
\* stand for well-formed codes.
ValidUrlCode(code) == code \in {"X", "Y", "EXPO-AB12", "EXPO-ZZ99"}

\* name.toUpperCase().replace(/[^A-Z0-9\s-]/g, '').replace(/\s+/g, '-')
UrlCodeBase(name) == IF name \in {"Expo", "Expo!"} THEN "EXPO" ELSE name

\* generateUrlCode(name): the base and four random characters
GenerateUrlCode(name) == {UrlCodeBase(name) \o "-" \o suffix : suffix \in Suffixes}

\* The unique key urlCode: an insert of a second row with the same code is
\* rejected by the database.
UniqueUrlCode(confs, code) == \A c \in confs : c.urlCode # code

\* prisma.conference.delete: the conference goes, and with it its surveys and
\* attendees with their questions and responses (the schema's cascade).
CascadeDeleteConference(d, id) ==
  LET svs == {s.id : s \in SurveysOf(d.surveys, id)}
      qids == {q.id : q \in {q \in d.questions : q.surveyId \in svs}}
      aids == {a.id : a \in {a \in d.attendees : a.conferenceId = id}}
  IN [conferences |-> {c \in d.conferences : c.id # id},
      questions |-> {q \in d.questions : q.id \notin qids},
      surveys |-> {s \in d.surveys : s.id \notin svs},
      responses |-> {x \in d.responses :
                       x.questionId \notin qids /\ x.attendeeId \notin aids},
      attendees |-> {a \in d.attendees : a.id \notin aids},
      passwordQueue |-> {e \in d.passwordQueue : e.attendeeId \notin aids}]

\* An authenticated admin sends POST /conferences; a missing name or a
\* malformed urlCode is answered 400 at once. finalUrlCode is the urlCode of
\* the body (a well-formed code has no blanks to trim) or, without one, a
\* generated code.
ReceiveCreateConference(r) ==
  \E a \in Admins, name \in ConferenceNames \cup {""},
     urlCode \in {"", "X", "EXPO-AB12", "a b"} :
    IF name = "" \/ (urlCode # "" /\ ~ValidUrlCode(urlCode))
      THEN Reject(r, "createConference", 400)
      ELSE \E finalUrlCode \in (IF urlCode # "" THEN {urlCode}
                                                ELSE GenerateUrlCode(name)) :
             Receive(r, [op |-> "createConference", pc |-> "findExisting",
                         adminId |-> a, urlCode |-> finalUrlCode])

\* POST /conferences: "Check if URL code already exists"
CreateConference_FindExisting(r) ==
  /\ req[r].pc = "findExisting"
  /\ req[r].op = "createConference"
  /\ IF ConferencesByCode(req[r].urlCode) # {}
       THEN Respond(r, 409)
       ELSE Goto(r, "create")
  /\ UNCHANGED <<db, nextId, now, hist, queue, io>>

\* POST /conferences: conference.create({data: {..., status: 'draft'}}), 201;
\* a rejected insert is answered 500 by the catch block.
CreateConference_Create(r) ==
  /\ req[r].pc = "create"
  /\ req[r].op = "createConference"
  /\ IF UniqueUrlCode(db.conferences, req[r].urlCode)
       THEN /\ nextId.conference <= MaxConferences
            /\ db' = [db EXCEPT !.conferences = @ \cup
                       {[status |-> "draft",
                         id |-> ConferenceIdOf(nextId.conference),
                         adminId |-> req[r].adminId,
                         urlCode |-> req[r].urlCode]}]
            /\ nextId' = [nextId EXCEPT !.conference = @ + 1]
            /\ Respond(r, 201)
       ELSE /\ Respond(r, 500)
            /\ UNCHANGED <<db, nextId>>
  /\ UNCHANGED <<now, hist, queue, io>>

\* An authenticated admin sends DELETE /conferences/:id.
ReceiveDeleteConference(r) ==
  \E a \in Admins, n \in 1..MaxConferences :
    Receive(r, [op |-> "deleteConference", pc |-> "find", id |-> ConferenceIdOf(n),
                adminId |-> a])

\* DELETE /conferences/:id: findFirst({where: {id, adminId}}), 404
DeleteConference_Find(r) ==
  /\ req[r].pc = "find"
  /\ req[r].op = "deleteConference"
  /\ IF \E c \in db.conferences : c.id = req[r].id /\ c.adminId = req[r].adminId
       THEN Goto(r, "delete")
       ELSE Respond(r, 404)
  /\ UNCHANGED <<db, nextId, now, hist, queue, io>>

\* DELETE /conferences/:id: conference.delete({where: {id}}); a delete of a row
\* that is gone is answered 500 by the catch block.
DeleteConference_Delete(r) ==
  /\ req[r].pc = "delete"
  /\ req[r].op = "deleteConference"
  /\ IF \E c \in db.conferences : c.id = req[r].id
       THEN /\ db' = CascadeDeleteConference(db, req[r].id)
            /\ Respond(r, 200)
       ELSE /\ Respond(r, 500)
            /\ UNCHANGED db
  /\ UNCHANGED <<nextId, now, hist, queue, io>>

\* -------------------------------------------------------------- responses
\* The question ids a submission can name: the four questions of the
\* database, a well-formed id of no question, and "" for a malformed id.
QuestionIds == {"q1", "q2", "q3", "q4"}
QuestionInputs == QuestionIds \cup {"q9", ""}

\* body.responses: arrays of at most MaxAnswers entries (the questionId of each)
Arrays(ids) == UNION {[1..n -> ids] : n \in 0..MaxAnswers}

\* responses.map(r => r.questionId)
AnsweredQuestionIds(responses) == {responses[i] : i \in 1..Len(responses)}

\* survey.questions.filter(q => q.isRequired).map(q => q.id)
NoRequiredQuestionIds(qs, surveyId) == {}
RequiredQuestionIds(qs, surveyId) ==
  {q.id : q \in {q \in qs : q.surveyId = surveyId /\ q.isRequired}}

\* response.findFirst({where: {attendeeId, question: {surveyId}}})
ExistingResponses(d, attendeeId, surveyId) ==
  {x \in d.responses :
     /\ x.attendeeId = attendeeId
     /\ \E q \in d.questions : q.id = x.questionId /\ q.surveyId = surveyId}

\* The compound unique key questionId_attendeeId: a transaction that would
\* store a second row for a pair is rejected by the database.
NoUniqueQuestionAttendee(rows, attendeeId, responses) == TRUE
UniqueQuestionAttendee(rows, attendeeId, responses) ==
  /\ \A i, j \in 1..Len(responses) : i # j => responses[i] # responses[j]
  /\ \A i \in 1..Len(responses) :
       ~\E x \in rows : x.attendeeId = attendeeId /\ x.questionId = responses[i]

\* The foreign keys of a response: its question and its attendee exist.
ResponseReferencesExist(d, attendeeId, responses) ==
  /\ HasAttendee(d.attendees, attendeeId)
  /\ \A i \in 1..Len(responses) : \E q \in d.questions : q.id = responses[i]

\* An attendee sends POST /responses/survey/:surveyId with a bearer token that
\* names an attendee id.
ReceiveSubmit(r, bearers, surveyIds, questionIds) ==
  \E b \in bearers, s \in surveyIds, responses \in Arrays(questionIds) :
    Receive(r, [op |-> "submit", pc |-> "authenticate", conferenceId |-> "",
                surveyId |-> s, responses |-> responses, attendeeId |-> 0,
                bearer |-> b, required |-> {}])

\* authenticateAttendee, then validateResponse and handleValidationErrors
SubmitResponse_Authenticate(r) ==
  /\ req[r].pc = "authenticate"
  /\ req[r].op = "submit"
  /\ IF ~HasAttendee(db.attendees, req[r].bearer)
       THEN Respond(r, 401)
     ELSE IF LockedOut(AttendeeById(db.attendees, req[r].bearer), now)
       THEN Respond(r, 423)
     ELSE IF "" \in AnsweredQuestionIds(req[r].responses)
       THEN Respond(r, 400)
     ELSE req' = [req EXCEPT
            ![r].pc = "findSurvey",
            ![r].attendeeId = req[r].bearer,
            ![r].conferenceId = AttendeeById(db.attendees, req[r].bearer).conferenceId]
  /\ UNCHANGED <<db, nextId, now, hist, queue, io>>

\* POST /responses/survey/:surveyId: "Verify survey exists and is active"
SubmitResponse_FindSurvey(r) ==
  /\ req[r].pc = "findSurvey"
  /\ req[r].op = "submit"
  /\ IF ~HasSurvey(db.surveys, req[r].surveyId)
       THEN Respond(r, 404)
     ELSE IF SurveyById(db.surveys, req[r].surveyId).status # "active"
       THEN Respond(r, 400)
     ELSE IF SurveyById(db.surveys, req[r].surveyId).conferenceId # req[r].conferenceId
       THEN Respond(r, 403)
     ELSE req' = [req EXCEPT
            ![r].pc = "findExisting",
            ![r].required = RequiredQuestionIds(db.questions, req[r].surveyId)]
  /\ UNCHANGED <<db, nextId, now, hist, queue, io>>

\* POST /responses/survey/:surveyId: "Check for existing responses" and
\* "Validate required questions"
SubmitResponse_FindExisting(r) ==
  /\ req[r].pc = "findExisting"
  /\ req[r].op = "submit"
  /\ IF ExistingResponses(db, req[r].attendeeId, req[r].surveyId) # {}
       THEN Respond(r, 409)
     ELSE IF req[r].required \ AnsweredQuestionIds(req[r].responses) # {}
       THEN Respond(r, 400)
     ELSE Goto(r, "create")
  /\ UNCHANGED <<db, nextId, now, hist, queue, io>>

\* for (const response of responses) emit('new_response', {questionId:
\* response.questionId, ...}), then emit('stats_update', ...)
SubmissionEventsOnce(responses) ==
  <<Event("new_response", ""), Event("stats_update", "")>>
SubmissionEvents(responses) ==
  [i \in 1..Len(responses) |-> Event("new_response", responses[i])]
    \o <<Event("stats_update", "")>>

\* The first create of the transaction that the database rejects: its
\* question or attendee is missing, or a row for its (questionId, attendeeId)
\* exists or was inserted by an earlier create of the transaction.
FirstRejected(d, attendeeId, responses) ==
  LET Rejected(i) ==
        \/ ~ResponseReferencesExist(d, attendeeId, <<responses[i]>>)
        \/ ~UniqueQuestionAttendee(d.responses, attendeeId, <<responses[i]>>)
        \/ \E j \in 1..(i - 1) : responses[j] = responses[i]
  IN CHOOSE k \in 1..Len(responses) :
       Rejected(k) /\ \A j \in 1..(k - 1) : ~Rejected(j)

\* prisma.$transaction([...]): of the rows inserted before the rejected create
\* none stays stored.
KeptWithoutRollback(rows) == rows
KeptAfterRollback(rows) == {}

\* POST /responses/survey/:surveyId: "Create responses", one awaited
\* transaction: all rows are stored, or no row is stored and the catch block
\* answers 500.
SubmitResponse_Create(r) ==
  /\ req[r].pc = "create"
  /\ req[r].op = "submit"
  /\ LET responses == req[r].responses
     IN IF /\ ResponseReferencesExist(db, req[r].attendeeId, responses)
           /\ UniqueQuestionAttendee(db.responses, req[r].attendeeId, responses)
          THEN /\ nextId.response + Len(responses) - 1 <= MaxResponses
               /\ db' = [db EXCEPT !.responses = @ \cup
                          {[id |-> nextId.response + i - 1,
                            questionId |-> responses[i],
                            attendeeId |-> req[r].attendeeId] : i \in 1..Len(responses)}]
               /\ nextId' = [nextId EXCEPT !.response = @ + Len(responses)]
               /\ Goto(r, "emit")
          ELSE /\ db' = [db EXCEPT !.responses = @ \cup
                          KeptAfterRollback(
                            {[id |-> nextId.response + i - 1,
                              questionId |-> responses[i],
                              attendeeId |-> req[r].attendeeId] :
                               i \in 1..(FirstRejected(db, req[r].attendeeId,
                                                       responses) - 1)})]
               /\ Respond(r, 500)
               /\ UNCHANGED nextId
  /\ UNCHANGED <<now, hist, queue, io>>

\* POST /responses/survey/:surveyId, after the transaction has returned: "Emit
\* WebSocket event for real-time statistics update", "Emit stats update" and
\* the answer 201.
SubmitResponse_Emit(r) ==
  /\ req[r].pc = "emit"
  /\ req[r].op = "submit"
  /\ hist' = [hist EXCEPT !.accepted =
               @ \cup {<<req[r].attendeeId, req[r].surveyId>>}]
  /\ Emit(Room(req[r].conferenceId), SubmissionEvents(req[r].responses))
  /\ Respond(r, 201)
  /\ UNCHANGED <<db, nextId, now, queue>>

\* ------------------------------------------------- surveys of an attendee
\* res.json(body): the handler of slot r ends with this body.
RespondBody(r, status, body) ==
  req' = [req EXCEPT ![r] = [op |-> req[r].op, status |-> status, token |-> {},
                             at |-> req[r].pc, pc |-> "idle", body |-> body]]

\* new Set(responses.map(r => r.question.surveyId)) over
\* response.findMany({where: {attendeeId}})
NoCompletedSurveyIds(d, attendeeId) == {}
CompletedSurveyIds(d, attendeeId) ==
  {q.surveyId : q \in {q \in d.questions :
                         \E x \in d.responses :
                           x.attendeeId = attendeeId /\ x.questionId = q.id}}

\* An attendee sends GET /surveys/active or GET /surveys/attendee/:id with a
\* bearer token that names an attendee id.
ReceiveGetSurveys(r, bearers, surveyIds) ==
  \/ \E b \in bearers :
       Receive(r, [op |-> "getActive", pc |-> "authenticate", conferenceId |-> "",
                   surveys |-> {}, attendeeId |-> 0, bearer |-> b])
  \/ \E b \in bearers, s \in surveyIds :
       Receive(r, [op |-> "getSurvey", pc |-> "authenticate", conferenceId |-> "",
                   surveyId |-> s, attendeeId |-> 0, bearer |-> b])

\* authenticateAttendee
GetSurveys_Authenticate(r) ==
  /\ req[r].pc = "authenticate"
  /\ req[r].op \in {"getActive", "getSurvey"}
  /\ IF ~HasAttendee(db.attendees, req[r].bearer)
       THEN Respond(r, 401)
     ELSE IF LockedOut(AttendeeById(db.attendees, req[r].bearer), now)
       THEN Respond(r, 423)
     ELSE req' = [req EXCEPT
            ![r].pc = "findSurveys",
            ![r].attendeeId = req[r].bearer,
            ![r].conferenceId = AttendeeById(db.attendees, req[r].bearer).conferenceId]
  /\ UNCHANGED <<db, nextId, now, hist, queue, io>>

\* GET /surveys/active: survey.findMany({where: {conferenceId, status:
\* 'active'}})
GetActive_FindSurveys(r) ==
  /\ req[r].pc = "findSurveys"
  /\ req[r].op = "getActive"
  /\ req' = [req EXCEPT
       ![r].pc = "findResponses",
       ![r].surveys = {x.id : x \in ActiveSurveys(db.surveys, req[r].conferenceId)}]
  /\ UNCHANGED <<db, nextId, now, hist, queue, io>>

\* GET /surveys/active: "Get attendee's completed surveys" and the answer,
\* one entry per survey with its isCompleted
GetActive_FindResponses(r) ==
  /\ req[r].pc = "findResponses"
  /\ req[r].op = "getActive"
  /\ RespondBody(r, 200,
       {[id |-> id,
         isCompleted |-> id \in CompletedSurveyIds(db, req[r].attendeeId)] :
          id \in req[r].surveys})
  /\ UNCHANGED <<db, nextId, now, hist, queue, io>>

\* GET /surveys/attendee/:id: survey.findFirst({where: {id, conferenceId,
\* status: 'active'}}), 404
GetSurvey_FindSurvey(r) ==
  /\ req[r].pc = "findSurveys"
  /\ req[r].op = "getSurvey"
  /\ IF \E x \in ActiveSurveys(db.surveys, req[r].conferenceId) :
          x.id = req[r].surveyId
       THEN Goto(r, "findExisting")
       ELSE Respond(r, 404)
  /\ UNCHANGED <<db, nextId, now, hist, queue, io>>

\* GET /surveys/attendee/:id: "Check if already completed", 400 with
\* alreadyCompleted, else the survey
GetSurvey_FindExisting(r) ==
  /\ req[r].pc = "findExisting"
  /\ req[r].op = "getSurvey"
  /\ IF ExistingResponses(db, req[r].attendeeId, req[r].surveyId) # {}
       THEN Respond(r, 400)
       ELSE Respond(r, 200)
  /\ UNCHANGED <<db, nextId, now, hist, queue, io>>

GetSurveysStep(r) ==
  \/ GetSurveys_Authenticate(r)
  \/ GetActive_FindSurveys(r)
  \/ GetActive_FindResponses(r)
  \/ GetSurvey_FindSurvey(r)
  \/ GetSurvey_FindExisting(r)

\* --------------------------------------------------- password delivery
\* A PasswordQueue row of the table; an attendee has at most one
\* (attendee.passwordQueue).
EntryOf(d, attendeeId) == {e \in d.passwordQueue : e.attendeeId = attendeeId}
HasEntry(d, queueId) == \E e \in d.passwordQueue : e.id = queueId

\* passwordQueue.update({where: {id: queueId}, data: {status: 'sent', sentAt}})
MarkSent(entries, queueId) ==
  { IF e.id = queueId THEN [e EXCEPT !.status = "sent"] ELSE e : e \in entries }

\* passwordQueue.update({where: {id: queueId}, data: {status: 'failed',
\*   attempts: {increment: 1}, errorMessage: error.message}})
MarkFailedTwice(entries, queueId, message) ==
  { IF e.id = queueId
      THEN [e EXCEPT !.status = "failed", !.attempts = @ + 2,
                     !.errorMessage = message]
      ELSE e : e \in entries }
MarkFailed(entries, queueId, message) ==
  { IF e.id = queueId
      THEN [e EXCEPT !.status = "failed", !.attempts = @ + 1,
                     !.errorMessage = message]
      ELSE e : e \in entries }

\* backoff: {type: 'exponential', delay: 60000}: the minutes Bull waits before
\* the retry that follows the attemptsMade-th attempt.
BackoffMins(attemptsMade) == 2^attemptsMade - 1

\* defaultJobOptions.attempts: a job that threw is retried while it has been
\* attempted fewer than config.email.retryAttempts times.
Retried(attemptsMade) == attemptsMade < RetryAttempts

\* attendee.passwordQueue.status === 'sent'
AlreadySentNever(entry) == FALSE
AlreadySent(entry) == entry.status = "sent"

\* prisma.attendee.delete: the attendee goes, and with it its responses and
\* its PasswordQueue row (the schema's cascade).
CascadeDeleteAttendee(d, id) ==
  [d EXCEPT !.attendees = {a \in @ : a.id # id},
            !.responses = {x \in @ : x.attendeeId # id},
            !.passwordQueue = {e \in @ : e.attendeeId # id}]

\* processPendingEmails (at startup and every minute): one job is added for
\* every pending entry whose scheduledAt has come.
ProcessPendingEmails ==
  LET pendingEmails == {e \in db.passwordQueue :
                          e.status = "pending" /\ e.scheduledAt <= now}
  IN /\ pendingEmails # {}
     /\ nextId.job + Cardinality(pendingEmails) - 1 <= MaxJobs
     /\ \E number \in [pendingEmails -> 0..(Cardinality(pendingEmails) - 1)] :
          /\ \A e, f \in pendingEmails : number[e] = number[f] => e = f
          /\ queue' = queue \cup
               {[id |-> nextId.job + number[e], attendeeId |-> e.attendeeId,
                 queueId |-> e.id, attemptsMade |-> 0, notBefore |-> now] :
                  e \in pendingEmails}
     /\ nextId' = [nextId EXCEPT !.job = @ + Cardinality(pendingEmails)]
     /\ UNCHANGED <<db, now, req, hist, io>>

\* The worker takes a job whose delay has passed; it handles one job at a time.
Job_Take(r) ==
  /\ Idle(r)
  /\ \E job \in queue :
       /\ job.notBefore <= now
       /\ queue' = queue \ {job}
       /\ req' = [req EXCEPT ![r] =
            [op |-> "job", pc |-> "findAttendee", password |-> "", queueId |-> 0,
             job |-> job, error |-> ""]]
  /\ UNCHANGED <<db, nextId, now, hist, io>>

\* The job returns: the slot remembers which return it was.
JobReturns(r, result) ==
  req' = [req EXCEPT ![r] = Answer("job", 0, {}, result)]

\* throw inside the try block: control passes to the catch block.
JobThrows(r, message) ==
  req' = [req EXCEPT ![r].pc = "catch", ![r].error = message]

\* passwordQueue.process: "Get attendee and conference info", the throw for a
\* missing attendee and the skip for a missing or sent entry
Job_FindAttendee(r) ==
  /\ req[r].pc = "findAttendee"
  /\ req[r].op = "job"
  /\ LET entries == EntryOf(db, req[r].job.attendeeId)
     IN IF ~HasAttendee(db.attendees, req[r].job.attendeeId)
          THEN JobThrows(r, "Attendee not found")
        ELSE IF entries = {} \/ AlreadySent(CHOOSE e \in entries : TRUE)
          THEN JobReturns(r, "skipped")
        ELSE req' = [req EXCEPT ![r].pc = "updateHash",
                                ![r].queueId = (CHOOSE e \in entries : TRUE).id]
  /\ UNCHANGED <<db, nextId, now, hist, queue, io>>

\* passwordQueue.process: generatePassword, hashPassword and
\* attendee.update({data: {passwordHash}}) (both branches do the same)
Job_UpdateHash(r) ==
  /\ req[r].pc = "updateHash"
  /\ req[r].op = "job"
  /\ IF HasAttendee(db.attendees, req[r].job.attendeeId)
       THEN \E password \in Passwords :
              /\ db' = [db EXCEPT !.attendees =
                         { IF a.id = req[r].job.attendeeId
                             THEN [a EXCEPT !.passwordHash = HashPassword(password)]
                             ELSE a : a \in @ }]
              /\ req' = [req EXCEPT ![r].pc = "send", ![r].password = password]
       ELSE /\ JobThrows(r, "Record to update not found")
            /\ UNCHANGED db
  /\ UNCHANGED <<nextId, now, hist, queue, io>>

\* passwordQueue.process: sendPasswordEmail, which sends the email with the
\* generated password or throws; hist.sent numbers the emails in their order
Job_SendEmail(r) ==
  /\ req[r].pc = "send"
  /\ req[r].op = "job"
  /\ \/ /\ hist' = [hist EXCEPT !.sent = @ \cup
                     {[password |-> req[r].password,
                       attendeeId |-> req[r].job.attendeeId,
                       queueId |-> req[r].queueId,
                       job |-> req[r].job.id,
                       number |-> Cardinality(hist.sent) + 1,
                       attempt |-> req[r].job.attemptsMade + 1]}]
        /\ Goto(r, "markSent")
     \/ /\ JobThrows(r, "Mail server unavailable")
        /\ UNCHANGED hist
  /\ UNCHANGED <<db, nextId, now, queue, io>>

\* passwordQueue.process: "Update queue status"
Job_MarkSent(r) ==
  /\ req[r].pc = "markSent"
  /\ req[r].op = "job"
  /\ IF HasEntry(db, req[r].job.queueId)
       THEN /\ db' = [db EXCEPT !.passwordQueue = MarkSent(@, req[r].job.queueId)]
            /\ Goto(r, "activate")
       ELSE /\ JobThrows(r, "Record to update not found")
            /\ UNCHANGED db
  /\ UNCHANGED <<nextId, now, hist, queue, io>>

\* attendee.update({where: {id}, data: {status}})
SetAttendeeStatusFirstLogin(atts, id, status) ==
  { IF a.id = id THEN [a EXCEPT !.status = "first_login"] ELSE a : a \in atts }
SetAttendeeStatus(atts, id, status) ==
  { IF a.id = id THEN [a EXCEPT !.status = status] ELSE a : a \in atts }

\* passwordQueue.process: "Update attendee status" and the return
Job_Activate(r) ==
  /\ req[r].pc = "activate"
  /\ req[r].op = "job"
  /\ IF HasAttendee(db.attendees, req[r].job.attendeeId)
       THEN /\ db' = [db EXCEPT !.attendees =
                       SetAttendeeStatus(@, req[r].job.attendeeId, "active")]
            /\ JobReturns(r, "success")
       ELSE /\ JobThrows(r, "Record to update not found")
            /\ UNCHANGED db
  /\ UNCHANGED <<nextId, now, hist, queue, io>>

\* passwordQueue.process: the catch block ("Update queue with error", then the
\* error is thrown again; the update itself throws when the entry is gone) and
\* Bull's reaction: the job is added again, delayed, unless its attempts are
\* used up.
Job_Catch(r) ==
  /\ req[r].pc = "catch"
  /\ req[r].op = "job"
  /\ LET job == req[r].job
         attemptsMade == job.attemptsMade + 1
     IN /\ db' = [db EXCEPT !.passwordQueue =
                    MarkFailed(@, job.queueId, req[r].error)]
        /\ IF Retried(attemptsMade)
             THEN /\ queue' = queue \cup
                       {[job EXCEPT !.attemptsMade = attemptsMade,
                                    !.notBefore = now + BackoffMins(attemptsMade)]}
                  /\ JobReturns(r, "retry")
             ELSE /\ queue' = queue
                  /\ JobReturns(r, "failed")
  /\ UNCHANGED <<nextId, now, hist, io>>

JobStep(r) ==
  \/ Job_Take(r)
  \/ Job_FindAttendee(r)
  \/ Job_UpdateHash(r)
  \/ Job_SendEmail(r)
  \/ Job_MarkSent(r)
  \/ Job_Activate(r)
  \/ Job_Catch(r)

\* An authenticated admin sends DELETE /attendees/:id.
ReceiveDeleteAttendee(r) ==
  \E a \in Admins, id \in 1..MaxAttendees :
    Receive(r, [op |-> "deleteAttendee", pc |-> "find", id |-> id, adminId |-> a])

\* DELETE /attendees/:id: findUnique, 404, 403
DeleteAttendee_Find(r) ==
  /\ req[r].pc = "find"
  /\ req[r].op = "deleteAttendee"
  /\ IF ~HasAttendee(db.attendees, req[r].id)
       THEN Respond(r, 404)
     ELSE IF ConferenceById(AttendeeById(db.attendees, req[r].id).conferenceId).adminId
               # req[r].adminId
       THEN Respond(r, 403)
     ELSE Goto(r, "delete")
  /\ UNCHANGED <<db, nextId, now, hist, queue, io>>

\* DELETE /attendees/:id: attendee.delete({where: {id}}); a delete of a row
\* that is gone is answered 500 by the catch block.
DeleteAttendee_Delete(r) ==
  /\ req[r].pc = "delete"
  /\ req[r].op = "deleteAttendee"
  /\ IF HasAttendee(db.attendees, req[r].id)
       THEN /\ db' = CascadeDeleteAttendee(db, req[r].id)
            /\ Respond(r, 200)
       ELSE /\ Respond(r, 500)
            /\ UNCHANGED db
  /\ UNCHANGED <<nextId, now, hist, queue, io>>

\* -------------------------------------------------------------- questions
\* The last path segment of PUT /questions/<segment>: a question id, or the
\* word of the reorder request.
PutSegments == QuestionIds \cup {"reorder"}

\* validateUUID: the ids of the database are UUIDs, the word 'reorder' is not.
IsUUID(segment) == segment # "reorder"

\* The PUT routes of the questions router, in the order of their declaration.
QuestionPutRoutes == <<"/:id", "/reorder">>

\* Express matches a path against a route: a parameter matches any segment.
MatchesRoute(route, segment) == route = "/:id" \/ route = "/" \o segment

\* Express hands the request to the first declared route that matches.
RouteOfPut(segment) ==
  QuestionPutRoutes[CHOOSE i \in 1..Len(QuestionPutRoutes) :
                      /\ MatchesRoute(QuestionPutRoutes[i], segment)
                      /\ \A j \in 1..(i - 1) :
                           ~MatchesRoute(QuestionPutRoutes[j], segment)]

QuestionById(qs, id) == CHOOSE q \in qs : q.id = id
HasQuestion(qs, id) == \E q \in qs : q.id = id
QuestionIdOf(n) == "q" \o ToString(n)

\* question.aggregate({where: {surveyId}, _max: {sortOrder: true}}) and
\* (maxSort._max.sortOrder || 0)
MaxSortOrder(qs, surveyId) ==
  LET orders == {q.sortOrder : q \in {x \in qs : x.surveyId = surveyId}}
  IN IF orders = {} THEN 0 ELSE CHOOSE m \in orders : \A o \in orders : o <= m

\* onDelete: Cascade from a question to its responses.
CascadeDeleteQuestion(d, id) ==
  [d EXCEPT !.questions = {q \in @ : q.id # id},
            !.responses = {x \in @ : x.questionId # id}]

\* An authenticated admin sends a question request: POST /questions,
\* PUT /questions/<id>, PUT /questions/reorder or DELETE /questions/<id>.
ReceiveQuestionRequest(r) ==
  \/ \E a \in Admins, surveyId \in SurveyIds, isRequired \in BOOLEAN :
       Receive(r, [op |-> "createQuestion", pc |-> "find", surveyId |-> surveyId,
                   adminId |-> a, isRequired |-> isRequired, maxSort |-> 0])
  \/ \E a \in Admins, id \in QuestionIds, isRequired \in BOOLEAN :
       Receive(r, [op |-> "updateQuestion", pc |-> "route", adminId |-> a,
                   isRequired |-> isRequired, segment |-> id])
  \/ \E a \in Admins, surveyId \in SurveyIds, id \in QuestionIds :
       Receive(r, [op |-> "reorderQuestions", pc |-> "route", surveyId |-> surveyId,
                   adminId |-> a, questionIds |-> <<id>>,
                   segment |-> "reorder"])
  \/ \E a \in Admins, id \in QuestionIds :
       Receive(r, [op |-> "deleteQuestion", pc |-> "find", adminId |-> a,
                   segment |-> id])

\* POST /questions: survey.findUnique, 404, 403
CreateQuestion_FindSurvey(r) ==
  /\ req[r].pc = "find"
  /\ req[r].op = "createQuestion"
  /\ IF ~HasSurvey(db.surveys, req[r].surveyId)
       THEN Respond(r, 404)
     ELSE IF ConferenceById(SurveyById(db.surveys, req[r].surveyId).conferenceId).adminId
               # req[r].adminId
       THEN Respond(r, 403)
     ELSE Goto(r, "aggregate")
  /\ UNCHANGED <<db, nextId, now, hist, queue, io>>

\* POST /questions: question.aggregate
CreateQuestion_Aggregate(r) ==
  /\ req[r].pc = "aggregate"
  /\ req[r].op = "createQuestion"
  /\ req' = [req EXCEPT ![r].pc = "create",
                        ![r].maxSort = MaxSortOrder(db.questions, req[r].surveyId)]
  /\ UNCHANGED <<db, nextId, now, hist, queue, io>>

\* POST /questions: question.create, 201; an insert that names a survey that
\* is gone is answered 500 by the catch block.
CreateQuestion_Create(r) ==
  /\ req[r].pc = "create"
  /\ req[r].op = "createQuestion"
  /\ IF HasSurvey(db.surveys, req[r].surveyId)
       THEN /\ nextId.question <= MaxQuestions
            /\ db' = [db EXCEPT !.questions = @ \cup
                       {[id |-> QuestionIdOf(nextId.question),
                         surveyId |-> req[r].surveyId,
                         isRequired |-> req[r].isRequired,
                         sortOrder |-> req[r].maxSort + 1]}]
            /\ nextId' = [nextId EXCEPT !.question = @ + 1]
            /\ Respond(r, 201)
       ELSE /\ Respond(r, 500)
            /\ UNCHANGED <<db, nextId>>
  /\ UNCHANGED <<now, hist, queue, io>>

\* PUT /questions/<segment>: the first matching route takes the request.
\* '/:id' runs validateUUID('id') and handleValidationErrors, which answer 400
\* to a segment that is no UUID; '/reorder' has no validation.
PutQuestion_Route(r) ==
  /\ req[r].pc = "route"
  /\ req[r].op \in {"updateQuestion", "reorderQuestions"}
  /\ IF RouteOfPut(req[r].segment) = "/:id"
       THEN IF IsUUID(req[r].segment)
              THEN Goto(r, "find")
              ELSE Respond(r, 400)
       ELSE Goto(r, "findSurvey")
  /\ UNCHANGED <<db, nextId, now, hist, queue, io>>

\* PUT /questions/:id and DELETE /questions/:id: question.findUnique, 404, 403
FindOwnedQuestion(r, nextPc) ==
  IF ~HasQuestion(db.questions, req[r].segment)
    THEN Respond(r, 404)
  ELSE IF ~HasSurvey(db.surveys, QuestionById(db.questions, req[r].segment).surveyId)
    THEN Respond(r, 500)
  ELSE IF ConferenceById(SurveyById(db.surveys,
            QuestionById(db.questions, req[r].segment).surveyId).conferenceId).adminId
            # req[r].adminId
    THEN Respond(r, 403)
  ELSE Goto(r, nextPc)

UpdateQuestion_Find(r) ==
  /\ req[r].pc = "find"
  /\ req[r].op = "updateQuestion"
  /\ FindOwnedQuestion(r, "update")
  /\ UNCHANGED <<db, nextId, now, hist, queue, io>>

\* PUT /questions/:id: question.update({where: {id}, data: {..., isRequired}});
\* an update of a row that is gone is answered 500 by the catch block.
UpdateQuestion_Update(r) ==
  /\ req[r].pc = "update"
  /\ req[r].op = "updateQuestion"
  /\ IF HasQuestion(db.questions, req[r].segment)
       THEN /\ db' = [db EXCEPT !.questions =
                       {IF q.id = req[r].segment
                          THEN [q EXCEPT !.isRequired = req[r].isRequired]
                          ELSE q : q \in @}]
            /\ Respond(r, 200)
       ELSE /\ Respond(r, 500)
            /\ UNCHANGED db
  /\ UNCHANGED <<nextId, now, hist, queue, io>>

\* The handler of PUT /questions/reorder: survey.findUnique, 404, 403. No
\* request reaches it: PutQuestion_Route hands every PUT to '/:id'.
ReorderQuestions_FindSurvey(r) ==
  /\ req[r].pc = "findSurvey"
  /\ req[r].op = "reorderQuestions"
  /\ IF ~HasSurvey(db.surveys, req[r].surveyId)
       THEN Respond(r, 404)
     ELSE IF ConferenceById(SurveyById(db.surveys, req[r].surveyId).conferenceId).adminId
               # req[r].adminId
       THEN Respond(r, 403)
     ELSE Goto(r, "reorder")
  /\ UNCHANGED <<db, nextId, now, hist, queue, io>>

\* The handler of PUT /questions/reorder: question.update({where: {id},
\* data: {sortOrder: index}}) for every id of the body, whichever survey the
\* question belongs to; an id of no question is answered 500.
ReorderQuestions_Update(r) ==
  /\ req[r].pc = "reorder"
  /\ req[r].op = "reorderQuestions"
  /\ db' = [db EXCEPT !.questions =
             {IF \E i \in 1..Len(req[r].questionIds) : req[r].questionIds[i] = q.id
                THEN [q EXCEPT !.sortOrder =
                        (CHOOSE i \in 1..Len(req[r].questionIds) :
                           req[r].questionIds[i] = q.id) - 1]
                ELSE q : q \in @}]
  /\ IF \A i \in 1..Len(req[r].questionIds) :
          HasQuestion(db.questions, req[r].questionIds[i])
       THEN Respond(r, 200)
       ELSE Respond(r, 500)
  /\ UNCHANGED <<nextId, now, hist, queue, io>>

DeleteQuestion_Find(r) ==
  /\ req[r].pc = "find"
  /\ req[r].op = "deleteQuestion"
  /\ FindOwnedQuestion(r, "delete")
  /\ UNCHANGED <<db, nextId, now, hist, queue, io>>

\* DELETE /questions/:id: question.delete({where: {id}}); a delete of a row
\* that is gone is answered 500 by the catch block.
DeleteQuestion_Delete(r) ==
  /\ req[r].pc = "delete"
  /\ req[r].op = "deleteQuestion"
  /\ IF HasQuestion(db.questions, req[r].segment)
       THEN /\ db' = CascadeDeleteQuestion(db, req[r].segment)
            /\ Respond(r, 200)
       ELSE /\ Respond(r, 500)
            /\ UNCHANGED db
  /\ UNCHANGED <<nextId, now, hist, queue, io>>

QuestionStep(r) ==
  \/ CreateQuestion_FindSurvey(r)
  \/ CreateQuestion_Aggregate(r)
  \/ CreateQuestion_Create(r)
  \/ PutQuestion_Route(r)
  \/ UpdateQuestion_Find(r)
  \/ UpdateQuestion_Update(r)
  \/ DeleteQuestion_Find(r)
  \/ DeleteQuestion_Delete(r)

\* ------------------------------------------- conference update, activation
\* An authenticated admin sends PUT /conferences/:id with a status, or none
\* (""), in a body that passes validateConference, or POST
\* /conferences/:id/activate.
ReceiveConferenceUpdate(r) ==
  \/ \E a \in Admins, n \in 1..MaxConferences, status \in {"", "archived"} :
       Receive(r, [op |-> "updateConference", status |-> status, pc |-> "find",
                   id |-> ConferenceIdOf(n), adminId |-> a, conference |-> <<>>])
  \/ \E a \in Admins, n \in 1..MaxConferences :
       Receive(r, [op |-> "activateConference", status |-> "active", pc |-> "find",
                   id |-> ConferenceIdOf(n), adminId |-> a,
                   conference |-> <<>>])

\* PUT /conferences/:id and POST /conferences/:id/activate:
\* findFirst({where: {id, adminId}}), 404
UpdateConference_Find(r) ==
  /\ req[r].pc = "find"
  /\ req[r].op \in {"updateConference", "activateConference"}
  /\ IF \E c \in db.conferences : c.id = req[r].id /\ c.adminId = req[r].adminId
       THEN req' = [req EXCEPT ![r].pc = "update",
                               ![r].conference = ConferenceById(req[r].id)]
       ELSE Respond(r, 404)
  /\ UNCHANGED <<db, nextId, now, hist, queue, io>>

\* PUT /conferences/:id: conference.update({data: {..., status: status ||
\* conference.status}}); /activate: data: {status: 'active'}; an update of a
\* row that is gone is answered 500 by the catch block.
UpdateConference_Update(r) ==
  /\ req[r].pc = "update"
  /\ req[r].op \in {"updateConference", "activateConference"}
  /\ IF \E c \in db.conferences : c.id = req[r].id
       THEN /\ db' = [db EXCEPT !.conferences =
                       {IF c.id = req[r].id
                          THEN [c EXCEPT !.status =
                                  IF req[r].status # "" THEN req[r].status
                                  ELSE req[r].conference.status]
                          ELSE c : c \in @}]
            /\ Respond(r, 200)
       ELSE /\ Respond(r, 500)
            /\ UNCHANGED db
  /\ UNCHANGED <<nextId, now, hist, queue, io>>

\* Time passes.
Tick ==
  /\ now + TickMins <= MaxTime
  /\ now' = now + TickMins
  /\ UNCHANGED <<db, nextId, req, hist, queue, io>>

\* --------------------------------------------------------- specifications
EmptyDb ==
  [conferences |-> {}, questions |-> {}, surveys |-> {}, responses |-> {},
   attendees |-> {}, passwordQueue |-> {}]
FirstIds ==
  [survey |-> 1, attendee |-> 1, conference |-> 1, response |-> 1, job |-> 1,
   question |-> 1]

NoHistory == [overlap |-> FALSE, accepted |-> {}, sent |-> {}]

InitCommon ==
  /\ nextId = FirstIds
  /\ now = 0
  /\ req = [r \in Slots |-> NoAnswer]
  /\ hist = NoHistory
  /\ queue = {}
  /\ io = NoSockets

\* Two admins, each with one active conference, and no survey yet.
InitSurveys ==
  /\ db = [EmptyDb EXCEPT !.conferences =
             {[status |-> "active", id |-> "c1", adminId |-> "admin1", urlCode |-> "X"],
              [status |-> "active", id |-> "c2", adminId |-> "admin2", urlCode |-> "Y"]}]
  /\ InitCommon

\* Survey requests handled one after the other.
NextSurveys == \E r \in SeqSlots : SurveyStep(r)
SpecSurveys == InitSurveys /\ [][NextSurveys]_vars

\* The two conferences with their surveys in place: two drafts in c1, one
\* active survey in c2.
InitSurveyRace ==
  /\ db = [EmptyDb EXCEPT
             !.conferences =
               {[status |-> "active", id |-> "c1", adminId |-> "admin1", urlCode |-> "X"],
                [status |-> "active", id |-> "c2", adminId |-> "admin2", urlCode |-> "Y"]},
             !.surveys =
               {[status |-> "draft", id |-> 1, conferenceId |-> "c1", title |-> "Day 1"],
                [status |-> "draft", id |-> 2, conferenceId |-> "c1", title |-> "Day 1"],
                [status |-> "active", id |-> 3, conferenceId |-> "c2", title |-> "Day 1"]}]
  /\ nextId = [FirstIds EXCEPT !.survey = 4]
  /\ now = 0
  /\ req = [r \in Slots |-> NoAnswer]
  /\ hist = NoHistory
  /\ queue = {}
  /\ io = NoSockets

\* Activations and deactivations handled concurrently.
NextSurveyRace ==
  \E r \in Slots :
    \/ ReceiveActivation(r)
    \/ ActivateSurvey_Find(r)
    \/ ActivateSurvey_DeactivateOthers(r)
    \/ ActivateSurvey_Activate(r)
    \/ DeactivateSurvey_Find(r)
    \/ DeactivateSurvey_Update(r)
SpecSurveyRace == InitSurveyRace /\ [][NextSurveyRace]_vars

\* Conference c1 (code X) is active, conference c2 (code Y) is still a draft;
\* nobody has registered yet.
InitAuth ==
  /\ db = [EmptyDb EXCEPT !.conferences =
             {[status |-> "active", id |-> "c1", adminId |-> "admin1", urlCode |-> "X"],
              [status |-> "draft", id |-> "c2", adminId |-> "admin2", urlCode |-> "Y"]}]
  /\ InitCommon

\* Registration, login and unlock requests handled one after the other, while
\* time passes.
NextAuth ==
  \/ Tick
  \/ \E r \in SeqSlots :
       \/ ReceiveFirstLogin(r, {"ann@x.io", "Ann@X.io"})
       \/ FirstLogin_FindConference(r)
       \/ FirstLogin_FindAttendee(r)
       \/ FirstLogin_Create(r)
       \/ ReceiveLogin(r)
       \/ Login_FindConference(r)
       \/ Login_FindAttendee(r)
       \/ Login_Verify(r)
       \/ ReceiveUnlock(r)
       \/ Unlock_Find(r)
       \/ Unlock_Update(r)
SpecAuth == InitAuth /\ [][NextAuth]_vars

\* Registrations handled concurrently, starting from the database of InitAuth.
NextRegisterRace ==
  \E r \in Slots :
    \/ ReceiveFirstLogin(r, Emails)
    \/ FirstLogin_FindConference(r)
    \/ FirstLogin_FindAttendee(r)
    \/ FirstLogin_Create(r)
SpecRegisterRace == InitAuth /\ [][NextRegisterRace]_vars

\* One conference (code X) exists.
InitConferences ==
  /\ db = [EmptyDb EXCEPT !.conferences =
             {[status |-> "active", id |-> "c1", adminId |-> "admin1", urlCode |-> "X"]}]
  /\ nextId = [FirstIds EXCEPT !.conference = 2]
  /\ now = 0
  /\ req = [r \in Slots |-> NoAnswer]
  /\ hist = NoHistory
  /\ queue = {}
  /\ io = NoSockets

\* Conference creations and deletions handled concurrently.
NextConferences ==
  \E r \in Slots :
    \/ ReceiveCreateConference(r)
    \/ CreateConference_FindExisting(r)
    \/ CreateConference_Create(r)
    \/ ReceiveDeleteConference(r)
    \/ DeleteConference_Find(r)
    \/ DeleteConference_Delete(r)
SpecConferences == InitConferences /\ [][NextConferences]_vars

\* Conference c1 holds the active surveys 1 (q1 required, q2 optional) and 2
\* (q3 optional) and the draft survey 3; conference c2 holds the active survey
\* 4 (q4 optional). Attendee 1 is registered in c1; nobody has answered yet.
InitResponses ==
  /\ db = [EmptyDb EXCEPT
             !.conferences =
               {[status |-> "active", id |-> "c1", adminId |-> "admin1", urlCode |-> "X"],
                [status |-> "active", id |-> "c2", adminId |-> "admin2", urlCode |-> "Y"]},
             !.surveys =
               {[status |-> "active", id |-> 1, conferenceId |-> "c1", title |-> "Day 1"],
                [status |-> "active", id |-> 2, conferenceId |-> "c1", title |-> "Day 1"],
                [status |-> "draft", id |-> 3, conferenceId |-> "c1", title |-> "Day 1"],
                [status |-> "active", id |-> 4, conferenceId |-> "c2", title |-> "Day 1"]},
             !.questions =
               {[id |-> "q1", surveyId |-> 1, isRequired |-> TRUE, sortOrder |-> 1],
                [id |-> "q2", surveyId |-> 1, isRequired |-> FALSE, sortOrder |-> 2],
                [id |-> "q3", surveyId |-> 2, isRequired |-> FALSE, sortOrder |-> 1],
                [id |-> "q4", surveyId |-> 4, isRequired |-> FALSE, sortOrder |-> 1]},
             !.attendees =
               {[status |-> "active", id |-> 1, conferenceId |-> "c1",
                 email |-> "ann@x.io", lockedUntil |-> NoDate,
                 failedAttempts |-> 0, passwordHash |-> HashPassword("pw1")]}]
  /\ nextId = [FirstIds EXCEPT !.conference = 3, !.survey = 5, !.attendee = 2]
  /\ now = 0
  /\ req = [r \in Slots |-> NoAnswer]
  /\ hist = NoHistory
  /\ queue = {}
  /\ io = NoSockets

SubmitResponseStep(r) ==
  \/ SubmitResponse_Authenticate(r)
  \/ SubmitResponse_FindSurvey(r)
  \/ SubmitResponse_FindExisting(r)
  \/ SubmitResponse_Create(r)
  \/ SubmitResponse_Emit(r)

\* Submissions handled one after the other: any bearer, any survey, any array
\* over the questions of the attendee's conference, an id of no question and
\* a malformed id.
NextResponses ==
  \E r \in SeqSlots :
    \/ ReceiveSubmit(r, {1, 2}, 1..5, QuestionInputs \ {"q4"})
    \/ SubmitResponseStep(r)
SpecResponses == InitResponses /\ [][NextResponses]_vars

\* Submissions of attendee 1 to the surveys 1 and 2 handled concurrently.
NextResponseRace ==
  \E r \in Slots :
    \/ ReceiveSubmit(r, {1}, {1, 2}, {"q1", "q3"})
    \/ SubmitResponseStep(r)
SpecResponseRace == InitResponses /\ [][NextResponseRace]_vars

\* Survey 5 of conference c1 is active and has two optional questions, q2 and
\* q3; survey 1 has the required question q1; attendee 1 is registered in c1.
InitSubmitRace ==
  /\ db = [EmptyDb EXCEPT
             !.conferences =
               {[status |-> "active", id |-> "c1", adminId |-> "admin1", urlCode |-> "X"]},
             !.surveys =
               {[status |-> "active", id |-> 1, conferenceId |-> "c1", title |-> "Day 1"],
                [status |-> "active", id |-> 5, conferenceId |-> "c1", title |-> "Day 2"]},
             !.questions =
               {[id |-> "q1", surveyId |-> 1, isRequired |-> TRUE, sortOrder |-> 1],
                [id |-> "q2", surveyId |-> 5, isRequired |-> FALSE, sortOrder |-> 1],
                [id |-> "q3", surveyId |-> 5, isRequired |-> FALSE, sortOrder |-> 2]},
             !.attendees =
               {[status |-> "active", id |-> 1, conferenceId |-> "c1",
                 email |-> "ann@x.io", lockedUntil |-> NoDate,
                 failedAttempts |-> 0, passwordHash |-> HashPassword("pw1")]}]
  /\ nextId = [FirstIds EXCEPT !.conference = 2, !.survey = 6, !.attendee = 2]
  /\ now = 0
  /\ req = [r \in Slots |-> NoAnswer]
  /\ hist = NoHistory
  /\ queue = {}
  /\ io = NoSockets

\* Submissions of attendee 1 to the surveys 1 and 5 handled concurrently.
NextSubmitRace ==
  \E r \in Slots :
    \/ ReceiveSubmit(r, {1}, {1, 5}, {"q2", "q3"})
    \/ SubmitResponseStep(r)
SpecSubmitRace == InitSubmitRace /\ [][NextSubmitRace]_vars

\* Conference c1 holds the active survey 1 (q1 required), conference c2 the
\* active survey 2 (q4 optional); attendee 1 is registered in c1; no socket
\* has joined a room.
InitSockets ==
  /\ db = [EmptyDb EXCEPT
             !.conferences =
               {[status |-> "active", id |-> "c1", adminId |-> "admin1", urlCode |-> "X"],
                [status |-> "active", id |-> "c2", adminId |-> "admin2", urlCode |-> "Y"]},
             !.surveys =
               {[status |-> "active", id |-> 1, conferenceId |-> "c1", title |-> "Day 1"],
                [status |-> "active", id |-> 2, conferenceId |-> "c2", title |-> "Day 1"]},
             !.questions =
               {[id |-> "q1", surveyId |-> 1, isRequired |-> TRUE, sortOrder |-> 1],
                [id |-> "q4", surveyId |-> 2, isRequired |-> FALSE, sortOrder |-> 1]},
             !.attendees =
               {[status |-> "active", id |-> 1, conferenceId |-> "c1",
                 email |-> "ann@x.io", lockedUntil |-> NoDate,
                 failedAttempts |-> 0, passwordHash |-> HashPassword("pw1")]}]
  /\ nextId = [FirstIds EXCEPT !.conference = 3, !.survey = 3, !.attendee = 2]
  /\ now = 0
  /\ req = [r \in Slots |-> NoAnswer]
  /\ hist = NoHistory
  /\ queue = {}
  /\ io = NoSockets

\* Sockets join and leave conference rooms while activations, deactivations
\* and submissions are handled one after the other.
NextSockets ==
  \/ \E s \in Sockets :
       \/ JoinConference_Find(s)
       \/ JoinConference_Join(s)
       \/ LeaveConference(s)
  \/ \E r \in SeqSlots :
       \/ ReceiveActivation(r)
       \/ ActivateSurvey_Find(r)
       \/ ActivateSurvey_DeactivateOthers(r)
       \/ ActivateSurvey_Activate(r)
       \/ DeactivateSurvey_Find(r)
       \/ DeactivateSurvey_Update(r)
       \/ ReceiveSubmit(r, {1}, {1, 2}, {"q1"})
       \/ SubmitResponseStep(r)
SpecSockets == InitSockets /\ [][NextSockets]_vars

\* Attendee 1 has registered in conference c1 and a password delivery is
\* scheduled for them: a pending PasswordQueue entry and the delayed job that
\* schedulePasswordDelivery added.
InitDelivery ==
  /\ db = [EmptyDb EXCEPT
             !.conferences =
               {[status |-> "active", id |-> "c1", adminId |-> "admin1", urlCode |-> "X"],
                [status |-> "draft", id |-> "c2", adminId |-> "admin2", urlCode |-> "Y"]},
             !.attendees =
               {[status |-> "first_login", id |-> 1, conferenceId |-> "c1",
                 email |-> "ann@x.io", lockedUntil |-> NoDate,
                 failedAttempts |-> 0, passwordHash |-> HashPassword("pw1")]},
             !.passwordQueue =
               {[status |-> "pending", id |-> 1, attempts |-> 0, attendeeId |-> 1,
                 errorMessage |-> "", scheduledAt |-> TickMins]}]
  /\ nextId = [FirstIds EXCEPT !.conference = 3, !.attendee = 2, !.job = 2]
  /\ now = 0
  /\ req = [r \in Slots |-> NoAnswer]
  /\ hist = NoHistory
  /\ queue = {[id |-> 1, attendeeId |-> 1, queueId |-> 1, attemptsMade |-> 0,
               notBefore |-> TickMins]}
  /\ io = NoSockets

\* The worker handles one job at a time in slot 1 while the poll runs, time
\* passes and, in slot 2, admins remove attendees.
NextDelivery ==
  \/ Tick
  \/ ProcessPendingEmails
  \/ JobStep(1)
  \/ ReceiveDeleteAttendee(2)
  \/ DeleteAttendee_Find(2)
  \/ DeleteAttendee_Delete(2)
SpecDelivery == InitDelivery /\ [][NextDelivery]_vars

\* Registrations and the jobs of the worker, handled one after the other
\* while the poll runs and time passes.
NextRegistration ==
  \/ Tick
  \/ ProcessPendingEmails
  \/ \E r \in SeqSlots :
       \/ JobStep(r)
       \/ ReceiveFirstLogin(r, {"bob@x.io", "Ann@X.io"})
       \/ FirstLogin_FindConference(r)
       \/ FirstLogin_FindAttendee(r)
       \/ FirstLogin_Create(r)
SpecRegistration == InitDelivery /\ [][NextRegistration]_vars

\* The life of attendee 1: first-logins, logins, unlocks and the jobs of the
\* worker, handled one after the other while time passes.
NextLifecycle ==
  \/ Tick
  \/ \E r \in SeqSlots :
       \/ JobStep(r)
       \/ ReceiveFirstLogin(r, {"ann@x.io", "Ann@X.io"})
       \/ FirstLogin_FindConference(r)
       \/ FirstLogin_FindAttendee(r)
       \/ ReceiveLogin(r)
       \/ Login_FindConference(r)
       \/ Login_FindAttendee(r)
       \/ Login_Verify(r)
       \/ ReceiveUnlock(r)
       \/ Unlock_Find(r)
       \/ Unlock_Update(r)
SpecLifecycle == InitDelivery /\ [][NextLifecycle]_vars

\* Logins handled concurrently, right after attendee 1 has registered.
NextLoginRace ==
  \E r \in Slots :
    \/ ReceiveLogin(r)
    \/ Login_FindConference(r)
    \/ Login_FindAttendee(r)
    \/ Login_Verify(r)
SpecLoginRace == InitDelivery /\ [][NextLoginRace]_vars

\* Admin 1 owns conference c1 (draft survey 1 with question q1, locked
\* attendee 1), admin 2 owns conference c2 (active survey 2 with question q2,
\* locked attendee 2).
InitOwnership ==
  /\ db = [EmptyDb EXCEPT
             !.conferences =
               {[status |-> "active", id |-> "c1", adminId |-> "admin1", urlCode |-> "X"],
                [status |-> "active", id |-> "c2", adminId |-> "admin2", urlCode |-> "Y"]},
             !.surveys =
               {[status |-> "draft", id |-> 1, conferenceId |-> "c1", title |-> "Day 1"],
                [status |-> "active", id |-> 2, conferenceId |-> "c2", title |-> "Day 1"]},
             !.questions =
               {[id |-> "q1", surveyId |-> 1, isRequired |-> TRUE, sortOrder |-> 1],
                [id |-> "q2", surveyId |-> 2, isRequired |-> FALSE, sortOrder |-> 1]},
             !.attendees =
               {[status |-> "locked", id |-> 1, conferenceId |-> "c1",
                 email |-> "ann@x.io", lockedUntil |-> LockoutDurationMins,
                 failedAttempts |-> LockoutAttempts, passwordHash |-> HashPassword("pw1")],
                [status |-> "locked", id |-> 2, conferenceId |-> "c2",
                 email |-> "bob@x.io", lockedUntil |-> LockoutDurationMins,
                 failedAttempts |-> LockoutAttempts, passwordHash |-> HashPassword("pw2")]}]
  /\ nextId = [FirstIds EXCEPT !.conference = 3, !.survey = 3, !.attendee = 3,
                               !.question = 3]
  /\ now = 0
  /\ req = [r \in Slots |-> NoAnswer]
  /\ hist = NoHistory
  /\ queue = {}
  /\ io = NoSockets

\* Admin 1 sends a request on a survey, question, attendee or conference,
\* its own or admin 2's.
ReceiveFromAdmin1(r) ==
  /\ \/ ReceiveSurveyRequest(r)
     \/ ReceiveQuestionRequest(r)
     \/ ReceiveUnlock(r)
     \/ ReceiveDeleteAttendee(r)
     \/ ReceiveConferenceUpdate(r)
     \/ ReceiveDeleteConference(r)
  /\ req'[r].adminId = "admin1"

\* Admin 1's requests, handled one at a time.
NextOwnership ==
  \E r \in SeqSlots :
    \/ ReceiveFromAdmin1(r)
    \/ ValidateSurvey(r)
    \/ CreateSurvey_FindConference(r)
    \/ CreateSurvey_Create(r)
    \/ UpdateSurvey_Find(r)
    \/ UpdateSurvey_Update(r)
    \/ ActivateSurvey_Find(r)
    \/ ActivateSurvey_DeactivateOthers(r)
    \/ ActivateSurvey_Activate(r)
    \/ DeactivateSurvey_Find(r)
    \/ DeactivateSurvey_Update(r)
    \/ DeleteSurvey_Find(r)
    \/ DeleteSurvey_Delete(r)
    \/ QuestionStep(r)
    \/ Unlock_Find(r)
    \/ Unlock_Update(r)
    \/ DeleteAttendee_Find(r)
    \/ DeleteAttendee_Delete(r)
    \/ UpdateConference_Find(r)
    \/ UpdateConference_Update(r)
    \/ DeleteConference_Find(r)
    \/ DeleteConference_Delete(r)
SpecOwnership == InitOwnership /\ [][NextOwnership]_vars

\* Attendee 1 submits to the surveys of InitResponses and reads its surveys,
\* one request at a time.
NextCompletion ==
  \E r \in SeqSlots :
    \/ ReceiveSubmit(r, {1}, {1, 2, 4}, {"q1", "q2", "q3"})
    \/ SubmitResponseStep(r)
    \/ ReceiveGetSurveys(r, {1}, 1..5)
    \/ GetSurveysStep(r)
SpecCompletion == InitResponses /\ [][NextCompletion]_vars

\* ------------------------------------------------------------------ claims
AtMostOneActive(svs) ==
  \A c \in ConfIds : Cardinality(ActiveSurveys(svs, c)) <= 1

\* C1: after any sequence of completed, non-overlapping survey requests each
\* conference has at most one survey whose status is 'active'.
C1_AtMostOneActivePerConference == AllIdle => AtMostOneActive(db.surveys)

\* C1 witness: an activation has completed in a conference that holds an active
\* survey next to one that has been deactivated.
C1_Witness ==
  /\ AllIdle
  /\ Answered(1, "activateSurvey", 200)
  /\ \E s, t \in db.surveys :
       /\ s.conferenceId = t.conferenceId
       /\ s.status = "active"
       /\ t.status = "inactive"

\* C2: a successful activation of S leaves S active, every other survey of S's
\* conference that was active inactive, and every survey of another conference
\* as it was when the request arrived.
C2_ActivationOutcome ==
  [][\A r \in SeqSlots :
       Answers(r, "activateSurvey", 200) =>
         LET pre == req[r].pre
             conf == req[r].survey.conferenceId
         IN /\ \E s \in db'.surveys : s.id = req[r].id /\ s.status = "active"
            /\ \A p \in pre :
                 (p.conferenceId = conf /\ p.id # req[r].id /\ p.status = "active")
                   => [p EXCEPT !.status = "inactive"] \in db'.surveys
            /\ \A c \in ConfIds \ {conf} :
                 SurveysOf(db'.surveys, c) = SurveysOf(pre, c)]_vars

\* C2 witness: an activation has succeeded where another survey of the same
\* conference is now inactive and another conference has an active survey.
C2_Witness ==
  /\ Answered(1, "activateSurvey", 200)
  /\ \E s, t, u \in db.surveys :
       /\ s.status = "active" /\ t.status = "inactive" /\ u.status = "active"
       /\ s.conferenceId = t.conferenceId
       /\ u.conferenceId # s.conferenceId

\* C3: the two updates of an activation are separate steps, so exclusivity is
\* lost only while requests overlap: a step that takes a conference from at
\* most one active survey to two is taken with overlapping requests.
C3_ExclusivityLostOnlyByOverlap ==
  [][(AtMostOneActive(db.surveys) /\ ~AtMostOneActive(db'.surveys))
       => hist.overlap]_vars

\* C3 witness: both activations have completed with 200 and both surveys of the
\* conference are active.
C3_BothActiveAfterBothCompleted ==
  /\ Answered(1, "activateSurvey", 200)
  /\ Answered(2, "activateSurvey", 200)
  /\ \E s, t \in db.surveys :
       /\ s.id # t.id
       /\ s.conferenceId = t.conferenceId
       /\ s.status = "active" /\ t.status = "active"

\* The attendee rows of a conference whose email, compared case-insensitively,
\* is this one.
RegisteredAs(atts, conferenceId, email) ==
  {a \in atts :
     /\ a.conferenceId = conferenceId
     /\ \/ a.email = email
        \/ {a.email, email} \subseteq {"ann@x.io", "Ann@X.io"}}

\* C4: a wrong-password login of an attendee with fewer than
\* config.lockout.attempts - 1 failed attempts is answered 401, counts one more
\* failed attempt and leaves the status; the one that finds
\* config.lockout.attempts - 1 failed attempts is answered 423, sets the status
\* to 'locked' and lockedUntil to now plus config.lockout.durationMins. Neither
\* is answered before the password is verified.
C4_FailedLoginsCountThenLock ==
  [][\A r \in SeqSlots :
       LET found == RegisteredAs(db.attendees, req[r].conferenceId, req[r].email)
           a == CHOOSE x \in found : TRUE
           b == AttendeeById(db'.attendees, a.id)
       IN (/\ ~Idle(r)
           /\ req[r].op = "login"
           /\ req[r].pc \in {"findAttendee", "verify"}
           /\ req'[r] # req[r]
           /\ found # {}
           /\ a.passwordHash # HashPassword(req[r].password)
           /\ a.failedAttempts < LockoutAttempts)
          => IF req[r].pc = "findAttendee"
               THEN req'[r].pc = "verify"
             ELSE IF a.failedAttempts < LockoutAttempts - 1
               THEN /\ Answers(r, "login", 401)
                    /\ b.failedAttempts = a.failedAttempts + 1
                    /\ b.status = a.status
             ELSE /\ Answers(r, "login", 423)
                  /\ b.status = "locked"
                  /\ b.lockedUntil = now + LockoutDurationMins]_vars

\* C4 witness: the fifth wrong password has just locked the attendee.
C4_Witness ==
  /\ Answered(1, "login", 423)
  /\ req[1].at = "verify"
  /\ \E a \in db.attendees :
       /\ a.status = "locked"
       /\ a.failedAttempts = LockoutAttempts
       /\ a.lockedUntil = now + LockoutDurationMins

\* C5: a login that finds the attendee locked with lockedUntil still ahead is
\* answered 423 without a token and changes nothing, whatever the password; no
\* login gets past that check to the password verification.
C5_LockedLoginRefused ==
  [][\A r \in SeqSlots :
       LET found == RegisteredAs(db.attendees, req[r].conferenceId, req[r].email)
           a == CHOOSE x \in found : TRUE
       IN (/\ ~Idle(r)
           /\ req[r].op = "login"
           /\ req[r].pc \in {"findAttendee", "verify"}
           /\ req'[r] # req[r]
           /\ found # {}
           /\ a.status = "locked"
           /\ now < a.lockedUntil)
          => /\ req[r].pc = "findAttendee"
             /\ Answers(r, "login", 423)
             /\ req'[r].token = {}
             /\ db' = db]_vars

\* C5 witness: a login was refused with 423 by the lock check while the
\* attendee is locked and lockedUntil is still ahead.
C5_Witness ==
  /\ Answered(1, "login", 423)
  /\ req[1].at = "findAttendee"
  /\ \E a \in db.attendees : a.status = "locked" /\ now < a.lockedUntil

C6_ResubmissionAlways409 ==
  [][\A r \in SeqSlots :
       ( /\ req[r].op = "submit"
         /\ req[r].pc \in {"findExisting", "create", "emit"}
         /\ <<req[r].attendeeId, req[r].surveyId>> \in hist.accepted
         /\ req'[r].pc = "idle" )
       => /\ req'[r].status = 409
          /\ db'.responses = db.responses]_vars

\* C7: in every reachable state there is at most one Response row per
\* (attendeeId, questionId) pair.
C7_OneResponsePerAttendeeQuestion ==
  \A x, y \in db.responses :
    (x.attendeeId = y.attendeeId /\ x.questionId = y.questionId) => x = y

\* C7 witness: rows are stored, and the unique key has just rolled back the
\* transaction of a submission that overlapped with another (in this
\* specification the insert is refused for no other reason): one that names a
\* question twice or names a question the attendee has a row for.
C7_Witness ==
  /\ db.responses # {}
  /\ hist.overlap
  /\ Answered(1, "submit", 201)
  /\ Answered(2, "submit", 500)
  /\ req[2].at = "create"

\* C9: no two Attendee rows ever share the same (conferenceId, lower-cased
\* email), under every interleaving of first-login requests.
C9_UniqueEmailPerConference ==
  \A a, b \in db.attendees :
    (a.conferenceId = b.conferenceId /\ b \in RegisteredAs({b}, a.conferenceId, a.email))
      => a = b

\* C9 witness: two overlapping registrations with the same email both passed
\* the look-up; one stored the attendee (201), the other was refused by the
\* unique key (500).
C9_Witness ==
  /\ hist.overlap
  /\ Answered(1, "firstLogin", 201)
  /\ Answered(2, "firstLogin", 500)
  /\ req[2].at = "create"
  /\ Cardinality(db.attendees) = 1

NoSharedUrlCode(confs) ==
  \A c, d \in confs : c.urlCode = d.urlCode => c = d

\* C10: every POST /conferences that reaches the handler either is answered
\* 201 and stores one conference whose urlCode differs from the urlCode of
\* every other stored conference, or is answered 409 and stores nothing, the
\* chosen urlCode being taken; and no two conferences ever share a urlCode.
C10_CreatedOrConflict ==
  [][/\ NoSharedUrlCode(db'.conferences)
     /\ \A r \in Slots :
          Answers(r, "createConference", req'[r].status)
          => \/ /\ req'[r].status = 201
                /\ \E c \in db'.conferences \ db.conferences :
                     /\ db'.conferences = db.conferences \cup {c}
                     /\ c.urlCode = req[r].urlCode
                     /\ \A o \in db.conferences : o.urlCode # c.urlCode
             \/ /\ req'[r].status = 409
                /\ db' = db
                /\ ConferencesByCode(req[r].urlCode) # {}]_vars

\* C11: every first-login answered 201 leaves a scheduled password delivery
\* for the new attendee: a pending PasswordQueue entry or a job of the queue
\* for that attendee.
C11_RegistrationSchedulesDelivery ==
  [][\A r \in SeqSlots :
       Answers(r, "firstLogin", 201)
       => \A id \in req'[r].token :
            \/ \E e \in db'.passwordQueue :
                 e.attendeeId = id /\ e.status = "pending"
            \/ \E job \in queue' : job.attendeeId = id]_vars

\* C12: a job attempt that throws marks the PasswordQueue entry of the job
\* 'failed', adds exactly one to its attempts and records the error message;
\* the job is then retried unless this was its config.email.retryAttempts-th
\* attempt, and no job is ever attempted more often than that.
C12_FailedAttemptRecordedAndRetried ==
  [][\A r \in Slots :
       (req[r].op = "job" /\ req[r].pc = "catch" /\ req'[r].pc = "idle")
       => LET job == req[r].job
              attemptsMade == job.attemptsMade + 1
          IN /\ attemptsMade <= RetryAttempts
             /\ attemptsMade < RetryAttempts
                  => \E j \in queue' : j.id = job.id /\ j.attemptsMade = attemptsMade
             /\ attemptsMade = RetryAttempts
                  => \A j \in queue' : j.id # job.id
             /\ \A e \in db.passwordQueue :
                  e.id = job.queueId
                  => \E f \in db'.passwordQueue :
                       /\ f.id = e.id
                       /\ f.status = "failed"
                       /\ f.attempts = e.attempts + 1
                       /\ f.errorMessage = req[r].error]_vars

\* C12 witness: a job has thrown on its third attempt and is not retried; the
\* entry is 'failed' with three attempts and the message on record.
C12_Witness ==
  /\ Answered(1, "job", 0)
  /\ req[1].at = "failed"
  /\ \E e \in db.passwordQueue :
       /\ e.status = "failed"
       /\ e.attempts = RetryAttempts
       /\ e.errorMessage = "Mail server unavailable"
  /\ queue = {}

\* The password emails sent for a PasswordQueue entry.
EmailsSent(sent, queueId) == {m \in sent : m.queueId = queueId}

\* C13: with one job handled at a time, at most one password email is ever
\* sent per PasswordQueue entry, whatever jobs the delay and the poll have
\* added; a job that finds the attendee's entry missing or 'sent' returns
\* skipped, sends no email and leaves the attendee's passwordHash and status.
C13_AtMostOneEmailPerEntry ==
  [][/\ \A m \in hist'.sent : Cardinality(EmailsSent(hist'.sent, m.queueId)) <= 1
     /\ \A r \in Slots :
          ( /\ req[r].op = "job"
            /\ req[r].pc = "findAttendee"
            /\ req'[r] # req[r]
            /\ HasAttendee(db.attendees, req[r].job.attendeeId)
            /\ \A e \in EntryOf(db, req[r].job.attendeeId) : e.status = "sent" )
          => /\ req'[r].pc = "idle"
             /\ req'[r].at = "skipped"
             /\ hist'.sent = hist.sent
             /\ db' = db]_vars

\* C13 witness: the poll has added jobs besides the delayed one, one email
\* was sent for entry 1, and a later job found the entry 'sent' and skipped.
C13_Witness ==
  /\ Answered(1, "job", 0)
  /\ req[1].at = "skipped"
  /\ nextId.job > 2
  /\ Cardinality(EmailsSent(hist.sent, 1)) = 1
  /\ \E e \in db.passwordQueue : e.id = 1 /\ e.status = "sent"

ConferenceEvents ==
  {"new_response", "stats_update", "survey_activated", "survey_deactivated"}

\* The conference of the survey that the request in slot r is about.
ConferenceOfRequest(r) ==
  SurveyById(db.surveys, IF req[r].op = "submit" THEN req[r].surveyId
                                                 ELSE req[r].id).conferenceId

\* C14: a socket enters a room only as conference:C through a join_conference
\* whose look-up found conference C; a join that names no conference emits
\* 'error' to the socket and joins no room; and the events emitted by an
\* accepted submission, activation or deactivation on conference C go to room
\* conference:C and reach only sockets that are in that room at that moment.
C14_EventsScopedToConferenceRooms ==
  [][/\ \A s \in Sockets : \A room \in io'.rooms[s] \ io.rooms[s] :
          \E c \in db.conferences :
            room = Room(c.id) /\ <<s, c.id>> \in io.joining
     /\ (\E m \in io'.inbox : m.event = "error" /\ io'.inbox # io.inbox)
          => io'.rooms = io.rooms /\ io'.joining = io.joining
     /\ \A r \in SeqSlots :
          ( \/ Answers(r, "submit", 201)
            \/ Answers(r, "activateSurvey", 200)
            \/ Answers(r, "deactivateSurvey", 200) )
          => /\ io'.emitted # {}
             /\ \A e \in io'.emitted :
                  e.event \in ConferenceEvents /\ e.room = Room(ConferenceOfRequest(r))
             /\ \A m \in io'.inbox :
                  /\ m.room = Room(ConferenceOfRequest(r))
                  /\ m.room \in io.rooms[m.socket]
     /\ \A m \in io'.inbox :
          (m.event \in ConferenceEvents /\ io'.inbox # io.inbox)
          => m.room \in io.rooms[m.socket]]_vars

\* C14 witness: socket s1, in room conference:c1, has received the
\* new_response of a submission in c1 that socket s2, in room conference:c2
\* only, has not.
C14_Witness ==
  /\ [room |-> Room("c1"), event |-> "new_response", socket |-> "s1"] \in io.inbox
  /\ io.rooms["s2"] = {Room("c2")}
  /\ \A m \in io.inbox : m.socket # "s2"
  /\ Answered(1, "submit", 201)

\* The admins who own the conference, survey, question or attendee that the
\* request in slot r names (none if no such row exists).
OwnersOfConference(id) == {c.adminId : c \in {x \in db.conferences : x.id = id}}
OwnersOfSurvey(id) ==
  UNION {OwnersOfConference(s.conferenceId) : s \in {x \in db.surveys : x.id = id}}
OwnersOfQuestion(id) ==
  UNION {OwnersOfSurvey(q.surveyId) : q \in {x \in db.questions : x.id = id}}
OwnersOfAttendee(id) ==
  UNION {OwnersOfConference(a.conferenceId) : a \in {x \in db.attendees : x.id = id}}
TargetOwners(r) ==
  CASE req[r].op \in {"updateSurvey", "activateSurvey", "deactivateSurvey",
                      "deleteSurvey"} -> OwnersOfSurvey(req[r].id)
    [] req[r].op \in {"createQuestion", "reorderQuestions"} ->
         OwnersOfSurvey(req[r].surveyId)
    [] req[r].op \in {"updateQuestion", "deleteQuestion"} ->
         OwnersOfQuestion(req[r].segment)
    [] req[r].op \in {"unlock", "deleteAttendee"} -> OwnersOfAttendee(req[r].id)
    [] req[r].op \in {"updateConference", "activateConference",
                      "deleteConference"} -> OwnersOfConference(req[r].id)
    [] OTHER -> {}

\* The rows of the conferences that admin a does not own.
RowsOfOthers(d, a) ==
  LET confs == {c \in d.conferences : c.adminId # a}
      svs == {s \in d.surveys : \E c \in confs : c.id = s.conferenceId}
  IN [conferences |-> confs,
      questions |-> {q \in d.questions : \E s \in svs : s.id = q.surveyId},
      surveys |-> svs,
      attendees |-> {x \in d.attendees : \E c \in confs : c.id = x.conferenceId}]

\* C15: an authenticated admin's request never changes a conference, survey,
\* question or attendee of another admin's conference, and every request that
\* names such a row (survey activate, deactivate, update, delete; question
\* create, update, reorder, delete; attendee unlock, delete; conference
\* update, activate, delete) with a body that passes validation is answered
\* 403 or 404 and changes nothing.
C15_OtherAdminsRequestsRefused ==
  [][\A r \in SeqSlots :
       (~Idle(r) /\ req'[r] # req[r] /\ "adminId" \in DOMAIN req[r]) =>
         /\ RowsOfOthers(db', req[r].adminId) = RowsOfOthers(db, req[r].adminId)
         /\ (/\ TargetOwners(r) \ {req[r].adminId} # {}
             /\ "title" \in DOMAIN req[r] => req[r].title # "") =>
              /\ db' = db
              /\ req'[r].pc = "idle" => req'[r].status \in {403, 404}]_vars

\* C16: whenever POST /responses/survey/:id answers an error status it stores
\* no Response row and emits no WebSocket event; a submission of an
\* authenticated attendee with a well-formed body is answered 404 for an
\* unknown survey, 400 for a survey that is not active, 403 for a survey of
\* another conference, 409 if the attendee has already answered the survey and
\* 400 if a required question is not answered.
C16_RejectedSubmissionStoresNothing ==
  [][\A r \in SeqSlots :
       (req[r].op = "submit" /\ ~Idle(r) /\ req'[r].pc = "idle") =>
         /\ req'[r].status # 201 => (db' = db /\ io' = io)
         /\ req[r].pc \notin {"authenticate", "emit"} =>
              LET svs == {x \in db.surveys : x.id = req[r].surveyId}
                  mine == {x \in db.attendees : x.id = req[r].attendeeId}
                  answered ==
                    {x \in db.responses :
                       /\ x.attendeeId = req[r].attendeeId
                       /\ \E q \in db.questions :
                            q.id = x.questionId /\ q.surveyId = req[r].surveyId}
                  missing ==
                    {q \in db.questions :
                       /\ q.surveyId = req[r].surveyId
                       /\ q.isRequired
                       /\ \A i \in 1..Len(req[r].responses) :
                            req[r].responses[i] # q.id}
              IN /\ svs = {} => req'[r].status = 404
                 /\ (\E x \in svs : x.status # "active") => req'[r].status = 400
                 /\ (\E x \in svs, a \in mine :
                       x.status = "active" /\ x.conferenceId # a.conferenceId)
                      => req'[r].status = 403
                 /\ (\E x \in svs, a \in mine :
                       x.status = "active" /\ x.conferenceId = a.conferenceId)
                      => /\ answered # {} => req'[r].status = 409
                         /\ (answered = {} /\ missing # {})
                              => req'[r].status = 400]_vars

\* C16 witness: after an accepted submission, a second one by the same
\* attendee was refused with 409, the rows and the last emitted events being
\* those of the first.
C16_Witness ==
  /\ Answered(1, "submit", 409)
  /\ db.responses # {}
  /\ hist.accepted # {}
  /\ io.emitted # {}

\* C17: after a lock has expired the attendee is locked again only after
\* config.lockout.attempts further wrong-password logins. A row that still
\* reads 'locked' with lockedUntil behind has seen no login since the expiry
\* (any login that gets past the lock check rewrites the row), so the login
\* verified against it is the first one since: with a threshold above one it
\* does not lock the attendee again.
C17_RelockNeedsFullCount ==
  [][\A r \in SeqSlots : \A a \in db.attendees :
       (/\ ~Idle(r)
        /\ req[r].op = "login"
        /\ req[r].pc = "verify"
        /\ req'[r] # req[r]
        /\ a.id = req[r].attendee.id
        /\ a.status = "locked"
        /\ a.lockedUntil # NoDate
        /\ a.lockedUntil <= now
        /\ LockoutAttempts > 1)
       => \A b \in db'.attendees :
            b.id = a.id => ~(b.status = "locked" /\ now < b.lockedUntil)]_vars

\* An attendee row as a successful login or unlock leaves it.
Unlocked(a) == a.status = "active" /\ a.failedAttempts = 0 /\ a.lockedUntil = NoDate

\* C18: after every successful attendee login (200 with a token) and every
\* successful admin unlock (200) the attendee's row reads status 'active',
\* failedAttempts 0 and lockedUntil null.
C18_LoginAndUnlockReset ==
  [][\A r \in SeqSlots :
       /\ Answers(r, "login", 200) =>
            /\ req'[r].token # {}
            /\ \A id \in req'[r].token :
                 /\ HasAttendee(db'.attendees, id)
                 /\ Unlocked(AttendeeById(db'.attendees, id))
       /\ Answers(r, "unlock", 200) =>
            /\ HasAttendee(db'.attendees, req[r].id)
            /\ Unlocked(AttendeeById(db'.attendees, req[r].id))]_vars

\* C18 witness: an admin's unlock was answered 200 while the lock set by the
\* wrong logins would still be running; the attendee reads active, 0, null.
C18_Witness ==
  /\ Answered(1, "unlock", 200)
  /\ now < LockoutDurationMins
  /\ hist.overlap = FALSE
  /\ \E a \in db.attendees : Unlocked(a)

\* C19: an attendee's status is always one of 'first_login', 'active' and
\* 'locked', and once it has left 'first_login' no operation (login,
\* first-login, unlock, password-delivery job) sets it back to 'first_login'.
C19_StatusNeverBackToFirstLogin ==
  /\ [](\A a \in db.attendees : a.status \in {"first_login", "active", "locked"})
  /\ [][\A a \in db.attendees, b \in db'.attendees :
          (a.id = b.id /\ a.status # "first_login") => b.status # "first_login"]_vars

\* C19 witness: the password-delivery job has just set a locked attendee,
\* whose five wrong logins had taken it from 'first_login' to 'locked', to
\* 'active'.
C19_Witness ==
  /\ Answered(1, "job", 0)
  /\ req[1].at = "success"
  /\ \E a \in db.attendees :
       a.status = "active" /\ a.failedAttempts = LockoutAttempts

\* C20: for an email already registered in the conference, first-login
\* returns a token without a password check only when the registered
\* attendee's status is 'first_login'; for 'active' or 'locked' it issues no
\* token.
C20_TokenOnlyForFirstLoginStatus ==
  [][\A r \in SeqSlots :
       LET found == RegisteredAs(db.attendees, req[r].conferenceId, req[r].email)
       IN (/\ ~Idle(r)
           /\ req[r].op = "firstLogin"
           /\ req[r].pc = "findAttendee"
           /\ req'[r] # req[r]
           /\ found # {})
          => (req'[r].token # {} => \A a \in found : a.status = "first_login")]_vars

\* C21: for an accepted submission with n responses the server emits exactly
\* n new_response events, the i-th carrying the questionId of the i-th
\* submitted response, followed by exactly one stats_update event, all to room
\* conference:<the attendee's conferenceId>; it emits them when all n rows
\* are stored, in the step that sends the 201 answer, and a submission emits in
\* no other step.
C21_AcceptedSubmissionEvents ==
  [][\A r \in SeqSlots :
       (req[r].op = "submit" /\ ~Idle(r) /\ req'[r] # req[r]) =>
         IF Answers(r, "submit", 201)
           THEN LET responses == req[r].responses
                    n == Len(responses)
                IN /\ Len(io'.sequence) = n + 1
                   /\ \A i \in 1..n :
                        io'.sequence[i] = [questionId |-> responses[i],
                                           event |-> "new_response"]
                   /\ io'.sequence[n + 1].event = "stats_update"
                   /\ \A a \in db.attendees : a.id = req[r].attendeeId =>
                        \A e \in io'.emitted : e.room = "conference:" \o a.conferenceId
                   /\ \A i \in 1..n : \E x \in db.responses :
                        x.attendeeId = req[r].attendeeId /\ x.questionId = responses[i]
           ELSE io' = io]_vars

\* C21 witness: a submission with two responses has just been answered 201;
\* three events were emitted, two new_response and one stats_update.
C21_Witness ==
  /\ Answered(1, "submit", 201)
  /\ Len(io.sequence) = 3
  /\ io.sequence[1].questionId # io.sequence[2].questionId
  /\ Cardinality(db.responses) >= 2

\* C22: the responses of one submission are stored atomically. A step of the
\* handler either stores no Response row, or it is the transaction storing
\* exactly one row for every element of the submitted array, after which the
\* handler answers 201 and nothing else; 201 is answered after that
\* transaction only.
C22_SubmissionStoredAtomically ==
  [][\A r \in SeqSlots :
       (req[r].op = "submit" /\ ~Idle(r) /\ req'[r] # req[r]) =>
         LET responses == req[r].responses
             created == db'.responses \ db.responses
         IN /\ db.responses \subseteq db'.responses
            /\ \/ created = {}
               \/ /\ Cardinality(created) = Len(responses)
                  /\ \A i \in 1..Len(responses) : \E x \in created :
                       x.attendeeId = req[r].attendeeId /\ x.questionId = responses[i]
                  /\ req'[r].pc = "emit"
            /\ req'[r].pc = "emit" =>
                 \A i \in 1..Len(responses) : \E x \in db'.responses :
                   x.attendeeId = req[r].attendeeId /\ x.questionId = responses[i]
            /\ req[r].pc = "emit" <=> Answers(r, "submit", 201)]_vars

\* C22 witness: rows are stored, and the transaction of a later submission
\* has been rejected and answered 500, leaving no row of its own: every id
\* handed out so far belongs to a stored row.
C22_Witness ==
  /\ Answered(1, "submit", 500)
  /\ req[1].at = "create"
  /\ db.responses # {}
  /\ nextId.response = Cardinality(db.responses) + 1

\* Attendee a has a Response row for a question of survey s.
HasResponded(a, s) ==
  \E x \in db.responses, q \in db.questions :
    x.attendeeId = a /\ x.questionId = q.id /\ q.surveyId = s

\* The active surveys of the conference of attendee a.
ActiveSurveyIdsOf(a) ==
  {s.id : s \in {s \in db.surveys :
                   /\ s.status = "active"
                   /\ \E x \in db.attendees : x.id = a /\ x.conferenceId = s.conferenceId}}

\* C23: for an attendee A and an active survey S of A's conference, GET
\* /surveys/active reports isCompleted = true for S exactly when POST
\* /responses/survey/S by A is rejected with 409, which is exactly when GET
\* /surveys/attendee/S answers 400 with alreadyCompleted: each of the three
\* happens exactly when A has a Response row for a question of S.
C23_CompletionReportedConsistently ==
  [][\A r \in SeqSlots :
       (~Idle(r) /\ req'[r] # req[r]) =>
         /\ Answers(r, "getActive", 200) =>
              /\ {e.id : e \in req'[r].body} = ActiveSurveyIdsOf(req[r].attendeeId)
              /\ \A e \in req'[r].body :
                   e.isCompleted <=> HasResponded(req[r].attendeeId, e.id)
         /\ (/\ req[r].op = "submit"
             /\ req[r].pc = "findExisting"
             /\ req[r].surveyId \in ActiveSurveyIdsOf(req[r].attendeeId)) =>
              (Answers(r, "submit", 409)
                 <=> HasResponded(req[r].attendeeId, req[r].surveyId))
         /\ (/\ req[r].op = "getSurvey"
             /\ req[r].pc = "findExisting"
             /\ req[r].surveyId \in ActiveSurveyIdsOf(req[r].attendeeId)) =>
              (Answers(r, "getSurvey", 400)
                 <=> HasResponded(req[r].attendeeId, req[r].surveyId))]_vars

\* C23 witness: GET /surveys/active has just reported one active survey of
\* the attendee's conference as completed and another as not completed.
C23_Witness ==
  /\ Answered(1, "getActive", 200)
  /\ \E e, f \in req[1].body : e.isCompleted /\ ~f.isCompleted
  /\ db.responses # {}

\* The password emails sent to an attendee so far.
EmailsTo(attendeeId) == {m \in hist.sent : m.attendeeId = attendeeId}

\* C24: whenever a PasswordQueue entry has status 'sent', the attendee's
\* stored passwordHash is the hash of the password in the most recently sent
\* password email for that attendee, for every sequence of job attempts,
\* failures, retries and duplicate jobs processed one at a time.
C24_SentPasswordIsStoredPassword ==
  \A e \in db.passwordQueue : \A a \in db.attendees :
    (e.status = "sent" /\ a.id = e.attendeeId) =>
      \E m \in EmailsTo(a.id) :
        /\ \A k \in EmailsTo(a.id) : k.number <= m.number
        /\ a.passwordHash = HashPassword(m.password)

\* C24 witness: the entry is 'sent' after a failed attempt and a duplicate job
\* for it has returned 'skipped'; the stored hash is not the one the attendee
\* registered with.
C24_Witness ==
  /\ Answered(1, "job", 0)
  /\ req[1].at = "skipped"
  /\ \E e \in db.passwordQueue : e.status = "sent" /\ e.attempts >= 1
  /\ \E a \in db.attendees, m \in hist.sent :
       /\ m.attendeeId = a.id
       /\ a.passwordHash = HashPassword(m.password)
       /\ a.passwordHash # HashPassword("pw1")

C26_NoFailedAttemptLost ==
  [][\A r \in Slots :
       (/\ req[r].pc = "verify"
        /\ req[r].op = "login"
        /\ req'[r].pc = "idle"
        /\ req'[r].status \in {401, 423})
       => LET id == req[r].attendee.id
              before == AttendeeById(db.attendees, id)
              after == AttendeeById(db'.attendees, id)
          IN /\ after.failedAttempts = before.failedAttempts + 1
             /\ ReachesLockout(after.failedAttempts) => after.status = "locked"]_vars

\* The submission in slot r answers at least one question and names only
\* questions of the survey it is sent to.
AnswersOwnQuestions(r) ==
  /\ req[r].responses # <<>>
  /\ \A q \in AnsweredQuestionIds(req[r].responses) :
       HasQuestion(db.questions, q) /\ QuestionById(db.questions, q).surveyId = req[r].surveyId

\* C27: when the same attendee sends two submissions to the same survey
\* concurrently, each answering questions of that survey, at most one of them
\* is accepted with 201 and the rows of at most one of them are stored: while
\* one of them is answered 201, the other one has not committed its
\* transaction as well (after the commit the only step left to a handler is
\* its own 201).
C27_AtMostOneConcurrentSubmissionAccepted ==
  [][\A r, o \in Slots :
       (/\ r # o
        /\ Answers(r, "submit", 201)
        /\ req[o].op = "submit"
        /\ req[o].pc \in {"findSurvey", "findExisting", "create", "emit"}
        /\ req[o].attendeeId = req[r].attendeeId
        /\ req[o].surveyId = req[r].surveyId
        /\ AnswersOwnQuestions(r)
        /\ AnswersOwnQuestions(o))
       => req[o].pc # "emit"]_vars

\* C28: every Response row created by POST /responses/survey/S refers to a
\* question that belongs to survey S: a submission that names a question of
\* another survey creates no row for that question.
C28_RowsReferToQuestionsOfTheSurvey ==
  [][\A r \in SeqSlots :
       (req[r].op = "submit" /\ req[r].pc = "create")
       => \A x \in db'.responses \ db.responses :
            /\ HasQuestion(db.questions, x.questionId)
            /\ QuestionById(db.questions, x.questionId).surveyId = req[r].surveyId]_vars

====
